---- MODULE Spec2Model ----
(***************************************************************************)
(* A model of the GCP VM Manager (src/gcp_vm_manager.py): the command      *)
(* runner, the status queries, the interactive port-forward configurator   *)
(* and the menu dispatch.                                                  *)
(*                                                                         *)
(* Text.  A string is a sequence of atoms: a literal of the source is one  *)
(* atom ("gcloud"), text the program looks into (a typed number, a path   *)
(* it splits) is one atom per part it tells apart, and concatenation is   *)
(* \o.  The output of a child process is a sequence of lexical tokens      *)
(* [k, v] (see JsonLoads).                                                 *)
(***************************************************************************)
EXTENDS Integers, Sequences, FiniteSets, TLC

VARIABLES
    procCalls,    \* the calls of subprocess.run made so far: [argv, capture]
    pfState,      \* configure_port_forwarding: its position
    pfArgs,       \* its arguments [project, vm, zone]
    pfInput,      \* the text the last port prompt read
    pfRetries,    \* how many port inputs were rejected so far
    remotePort,   \* the accepted remote port (0: none yet)
    localPort,    \* the accepted local port (0: none yet)
    pfReport,     \* what the configurator told the user about the tunnel
    pfRaised,     \* the exception that left configure_port_forwarding, if any
    pfReturned,   \* whether control is back in the calling menu
    cmdFn,        \* the function of the command layer that was called last
    cmdArgs,      \* its arguments
    cmdCapture,   \* run_command's capture_output
    cmdOutcome,   \* what subprocess.run did in that call
    cmdRaised,    \* the exception that left the function, if any
    runCalls,     \* how often the function called run_command
    rcRet,        \* what run_command returned: [code, stdout, stderr]
    vsRet,        \* what get_vm_status returned
    avRet,        \* what get_all_vm_statuses returned: a dict, as its items
    pc,           \* main(): the prompt the program waits at, or "exited"
    resume,       \* at a "Press Enter" prompt: the menu that is shown after it
    lastInput,    \* the text the last prompt read
    msgs,         \* what the last step told the user
    dispatched,   \* the action functions the last step called
    exitCode,     \* the exit code of the process (-1: still running)
    cfgFile,      \* config.json: [exists, ok, val]
    cfgMem,       \* the config dict main() loaded
    answers,      \* manage_projects: the lines its free-text prompts read in the step
    codes,        \* ssh_to_cloud_run, use_debug_container: the exit codes run_command
                  \* returned for the commands of the step (-1: interrupted)
    debugLine,    \* use_debug_container: the "[DEBUG] Running" line of the step, if any
    curProject,   \* the project that was selected
    vmList,       \* display_vms: the rows listed
    curVm,        \* the row that was selected
    vmStatus,     \* vm_action_menu: the status it showed
    svcList,      \* display_cloud_run_services: the services listed
    curService,   \* the service that was selected
    debugMode,    \* ssh_to_cloud_run: the debug_mode answer
    serviceUrl,   \* use_debug_container: service_url
    authToken     \* use_debug_container: token

pfVars ==
    <<pfState, pfArgs, pfInput, pfRetries, remotePort, localPort, pfReport, pfRaised,
      pfReturned>>

cmdVars ==
    <<cmdFn, cmdArgs, cmdCapture, cmdOutcome, cmdRaised, runCalls, rcRet, vsRet, avRet>>

\* the configuration, in the file and in memory
cfgVars == <<cfgFile, cfgMem>>

\* the locals of manage_vms and of the functions it calls
vmVars == <<vmList, curVm, vmStatus>>

\* the locals of manage_cloud_run and of the functions it calls
crVars == <<svcList, curService, debugMode, serviceUrl, authToken>>

menuVars ==
    <<pc, resume, lastInput, msgs, dispatched, exitCode, cfgVars, answers, codes, debugLine,
      curProject, vmVars, crVars>>

vars == <<procCalls, pfVars, cmdVars, menuVars>>

\* what the actions of the configurator leave alone
nonPfVars == <<cmdVars, menuVars>>

\* what the actions of the command layer leave alone
nonCmdVars == <<pfVars, menuVars>>

\* what the actions of the menus leave alone
nonMenuVars == <<pfVars, cmdVars>>

(***************************************************************************)
(* Bounds of the model.                                                    *)
(***************************************************************************)
\* rejected port inputs the user types in one run of the configurator
MaxRetries == 3

(***************************************************************************)
(* Text typed by the user, and int() / str().                              *)
(***************************************************************************)
Digits == {"0", "1", "2", "3", "4", "5", "6", "7", "8", "9"}

DigitVal(c) ==
    CASE c = "0" -> 0 [] c = "1" -> 1 [] c = "2" -> 2 [] c = "3" -> 3
      [] c = "4" -> 4 [] c = "5" -> 5 [] c = "6" -> 6 [] c = "7" -> 7
      [] c = "8" -> 8 [] c = "9" -> 9

DigitChar(d) ==
    CASE d = 0 -> "0" [] d = 1 -> "1" [] d = 2 -> "2" [] d = 3 -> "3"
      [] d = 4 -> "4" [] d = 5 -> "5" [] d = 6 -> "6" [] d = 7 -> "7"
      [] d = 8 -> "8" [] d = 9 -> "9"

Whitespace == {" ", "\t", "\n"}

RECURSIVE StripLeft(_)
StripLeft(s) == IF s # <<>> /\ Head(s) \in Whitespace THEN StripLeft(Tail(s)) ELSE s

RECURSIVE StripRight(_)
StripRight(s) ==
    IF s # <<>> /\ s[Len(s)] \in Whitespace THEN StripRight(SubSeq(s, 1, Len(s) - 1))
    ELSE s

Strip(s) == StripRight(StripLeft(s))

RECURSIVE DigitsValue(_)
DigitsValue(ds) ==
    IF ds = <<>> THEN 0
    ELSE 10 * DigitsValue(SubSeq(ds, 1, Len(ds) - 1)) + DigitVal(ds[Len(ds)])

\* int(s): surrounding blanks are dropped, one sign is allowed, then digits only;
\* anything else is a ValueError (ok = FALSE)
ParseInt(s) ==
    LET t == Strip(s)
        signed == t # <<>> /\ Head(t) \in {"+", "-"}
        body == IF signed THEN Tail(t) ELSE t
    IN  IF body # <<>> /\ \A i \in 1..Len(body) : body[i] \in Digits
        THEN [ok |-> TRUE,
              val |-> IF signed /\ Head(t) = "-" THEN 0 - DigitsValue(body)
                      ELSE DigitsValue(body)]
        ELSE [ok |-> FALSE, val |-> 0]

RECURSIVE NatToStr(_)
NatToStr(n) ==
    IF n < 10 THEN <<DigitChar(n)>> ELSE NatToStr(n \div 10) \o <<DigitChar(n % 10)>>

\* str(n)
IntToStr(n) == IF n < 0 THEN <<"-">> \o NatToStr(0 - n) ELSE NatToStr(n)

\* the texts the user types at a port prompt:
\* "", "abc", "8o", "0", "-1", "70000", "65536", "65535", "8080", "1", " 22 "
PortInputs ==
    { <<>>, <<"a", "b", "c">>, <<"8", "o">>, <<"0">>, <<"-", "1">>,
      <<"7", "0", "0", "0", "0">>, <<"6", "5", "5", "3", "6">>,
      <<"6", "5", "5", "3", "5">>, <<"8", "0", "8", "0">>, <<"1">>,
      <<" ", "2", "2", " ">> }

Projects == { <<"test-project">>, <<"production-1">> }

VmNames == { <<"test-vm">>, <<"db-1">> }

\* "us-central1-a", "europe-west1-b"
Zones == { <<"us-central1", "-", "a">>, <<"europe-west1", "-", "b">> }

\* "Unknown"
Unknown == <<"Unkno", "w", "n">>

(***************************************************************************)
(* Output of a child process, and json.loads.  A text is a sequence of     *)
(* tokens: punctuation, string literals, numbers and bare words.           *)
(***************************************************************************)
Tok(k, v) == [k |-> k, v |-> v]

\* tokens whose text is the one atom a
P(a) == Tok("punct", <<a>>)

S(a) == Tok("str", <<a>>)

N(a) == Tok("num", <<a>>)

W(a) == Tok("word", <<a>>)

EmptyText == <<>>

\* the attribute of a stream that was not captured
NoneText == <<Tok("none", <<>>)>>

\* a JSON value: its kind, its scalar (a string), its members [key, val] (of an
\* array: key "")
JVal(k, s, m) == [k |-> k, s |-> s, m |-> m]

JStr(x) == JVal("str", x, <<>>)

JNum(x) == JVal("num", x, <<>>)

JBool(x) == JVal("bool", x, <<>>)

JNull == JVal("null", <<>>, <<>>)

JObj(m) == JVal("obj", <<>>, m)

JArr(m) == JVal("arr", <<>>, m)

Member(key, val) == [key |-> key, val |-> val]

ParseFail == [ok |-> FALSE, val |-> JNull, rest |-> <<>>]

ParseOk(v, rest) == [ok |-> TRUE, val |-> v, rest |-> rest]

RECURSIVE ParseValue(_), ParseMembers(_, _), ParseElements(_, _)
\* one JSON value at the head of ts
ParseValue(ts) ==
    IF ts = <<>> THEN ParseFail
    ELSE LET t == Head(ts)
             rest == Tail(ts)
         IN  CASE t.k = "str" -> ParseOk(JStr(t.v), rest)
               [] t.k = "num" -> ParseOk(JNum(t.v), rest)
               [] t = W("null") -> ParseOk(JNull, rest)
               [] t \in {W("true"), W("false")} -> ParseOk(JBool(t.v), rest)
               [] t = P("{") ->
                    IF rest # <<>> /\ Head(rest) = P("}")
                    THEN ParseOk(JObj(<<>>), Tail(rest))
                    ELSE ParseMembers(rest, <<>>)
               [] t = P("[") ->
                    IF rest # <<>> /\ Head(rest) = P("]")
                    THEN ParseOk(JArr(<<>>), Tail(rest))
                    ELSE ParseElements(rest, <<>>)
               [] OTHER -> ParseFail

\* "key" : value, then a comma and more members, or the closing brace
ParseMembers(ts, acc) ==
    IF Len(ts) < 2 \/ ts[1].k # "str" \/ ts[2] # P(":") THEN ParseFail
    ELSE LET r == ParseValue(SubSeq(ts, 3, Len(ts)))
         IN  IF ~r.ok \/ r.rest = <<>> THEN ParseFail
             ELSE LET acc2 == Append(acc, Member(ts[1].v, r.val))
                  IN  CASE Head(r.rest) = P("}") -> ParseOk(JObj(acc2), Tail(r.rest))
                        [] Head(r.rest) = P(",") -> ParseMembers(Tail(r.rest), acc2)
                        [] OTHER -> ParseFail

\* value, then a comma and more elements, or the closing bracket
ParseElements(ts, acc) ==
    LET r == ParseValue(ts)
    IN  IF ~r.ok \/ r.rest = <<>> THEN ParseFail
        ELSE LET acc2 == Append(acc, Member(<<>>, r.val))
             IN  CASE Head(r.rest) = P("]") -> ParseOk(JArr(acc2), Tail(r.rest))
                   [] Head(r.rest) = P(",") -> ParseElements(Tail(r.rest), acc2)
                   [] OTHER -> ParseFail

\* json.loads(text): ok = FALSE is an exception (JSONDecodeError, or TypeError on None)
JsonLoads(text) ==
    LET r == ParseValue(text)
    IN  IF r.ok /\ r.rest = <<>> THEN [ok |-> TRUE, val |-> r.val]
        ELSE [ok |-> FALSE, val |-> JNull]

MaxOf(I) == CHOOSE i \in I : \A j \in I : j <= i

\* dict.get(key, default) on the members of a parsed object: the last "key" wins
DictGet(m, key, default) ==
    LET I == {i \in 1..Len(m) : m[i].key = key}
    IN  IF I = {} THEN default ELSE m[MaxOf(I)].val

HasKey(m, key) == \E i \in 1..Len(m) : m[i].key = key

\* del d[key] on a dict kept as its items
DictDel(d, key) ==
    LET keep(e) == e.key # key
    IN  SelectSeq(d, keep)

\* d[key] = val on a dict kept as its items
DictSet(d, key, val) ==
    LET I == {i \in 1..Len(d) : d[i].key = key}
    IN  IF I = {} THEN Append(d, Member(key, val))
        ELSE [d EXCEPT ![MaxOf(I)] = Member(key, val)]

(***************************************************************************)
(* What subprocess.run does: the child runs to an exit code, or the call   *)
(* raises an Exception (the process could not be started), or the user     *)
(* interrupts it (KeyboardInterrupt, which is no Exception).               *)
(***************************************************************************)
Completed(rc, out, err) == [kind |-> "completed", rc |-> rc, out |-> out, err |-> err]

Raises(msg) == [kind |-> "exception", rc |-> 0, out |-> EmptyText, err |-> msg]

Interrupted == [kind |-> "interrupt", rc |-> 0, out |-> EmptyText, err |-> EmptyText]

Instance1 ==
    <<P("{"), S("name"), P(":"), S("vm1"), P(","), S("status"), P(":"), S("RUNNING"), P("}")>>

Instance2 ==
    <<P("{"), S("name"), P(":"), S("vm2"), P(","), S("status"), P(":"), S("TERMINATED"), P("}")>>

Instance1Stopped ==
    <<P("{"), S("name"), P(":"), S("vm1"), P(","), S("status"), P(":"), S("STOPPED"), P("}")>>

\* the texts a child writes to its standard output
StdoutTexts ==
    { EmptyText,
      <<W("not"), W("json")>>,
      <<P("{"), S("status"), P(":"), S("RUNNING"), P("}")>>,
      <<P("{"), S("status"), P(":"), S("TERMINATED"), P("}")>>,
      <<P("{"), S("status"), P(":"), S("STOPPED"), P(","), S("status"), P(":"), S("RUNNING"), P("}")>>,
      <<P("{"), S("status"), P(":"), W("null"), P("}")>>,
      <<P("{"), S("status"), P(":")>>,
      <<P("{"), S("name"), P(":"), S("vm1"), P("}")>>,
      <<P("{"), P("}")>>,
      <<W("null")>>,
      <<S("RUNNING")>>,
      <<N("5")>>,
      <<P("["), P("]")>>,
      <<P("[")>> \o Instance1 \o <<P(",")>> \o Instance2 \o <<P("]")>>,
      <<P("[")>> \o Instance1 \o <<P(",")>> \o Instance1Stopped \o <<P("]")>>,
      <<P("[")>> \o Instance1 \o <<P(","), N("5"), P("]")>>,
      <<P("["), N("5"), P(",")>> \o Instance1 \o <<P("]")>>,
      <<P("["), P("{"), S("status"), P(":"), S("RUNNING"), P("}"), P(","),
        P("{"), S("name"), P(":"), S("vm2"), P("}"), P("]")>>,
      <<P("[")>> \o Instance1 \o <<P(",")>> \o Instance2 }

StderrTexts == { EmptyText, <<W("error"), W("message")>> }

ExitCodes == {0, 1, 2}

ExceptionTexts == { <<W("boom")>>, <<W("No"), W("such"), W("file")>> }

ProcOutcomes ==
    {Completed(rc, out, err) : rc \in ExitCodes, out \in StdoutTexts, err \in StderrTexts}
        \cup {Raises(msg) : msg \in ExceptionTexts}
        \cup {Interrupted}

(***************************************************************************)
(* run_command, get_vm_status, get_all_vm_statuses.                        *)
(***************************************************************************)
Call(argv, capture) == [argv |-> argv, capture |-> capture]

RunResult(raised, code, stdout, stderr, call) ==
    [raised |-> raised, code |-> code, stdout |-> stdout, stderr |-> stderr,
     calls |-> <<call>>]

\* subprocess.run(..., check=True): a non-zero exit raises inside the try
RunCommand_CheckTrue(command, capture, o) ==
    CASE o.kind = "completed" /\ o.rc = 0 ->
           RunResult("none", o.rc, IF capture THEN o.out ELSE NoneText,
                     IF capture THEN o.err ELSE NoneText, Call(command, capture))
      [] o.kind = "completed" /\ o.rc # 0 ->
           RunResult("none", 1, EmptyText, <<W("CalledProcessError")>>,
                     Call(command, capture))
      [] o.kind = "exception" ->
           RunResult("none", 1, EmptyText, o.err, Call(command, capture))
      [] o.kind = "interrupt" ->
           RunResult("KeyboardInterrupt", 0, EmptyText, EmptyText, Call(command, capture))

\* the error text put in the stdout slot
RunCommand_ErrInStdout(command, capture, o) ==
    CASE o.kind = "completed" ->
           RunResult("none", o.rc, IF capture THEN o.out ELSE NoneText,
                     IF capture THEN o.err ELSE NoneText, Call(command, capture))
      [] o.kind = "exception" ->
           RunResult("none", 1, o.err, EmptyText, Call(command, capture))
      [] o.kind = "interrupt" ->
           RunResult("KeyboardInterrupt", 0, EmptyText, EmptyText, Call(command, capture))

\* run_command(command, capture_output) when subprocess.run does o
RunCommand(command, capture, o) ==
    CASE o.kind = "completed" ->
           RunResult("none", o.rc, IF capture THEN o.out ELSE NoneText,
                     IF capture THEN o.err ELSE NoneText, Call(command, capture))
      [] o.kind = "exception" ->
           RunResult("none", 1, EmptyText, o.err, Call(command, capture))
      [] o.kind = "interrupt" ->
           RunResult("KeyboardInterrupt", 0, EmptyText, EmptyText, Call(command, capture))

DescribeStatusCmd(project, vm, zone) ==
    << <<"gcloud">>, <<"compute">>, <<"instances">>, <<"describe">>, vm,
       <<"--project">>, project, <<"--zone">>, zone, <<"--format">>, <<"json(status)">> >>

FnResult(raised, val, runs, calls) ==
    [raised |-> raised, val |-> val, runs |-> runs, calls |-> calls]

\* the exit code is not looked at
GetVmStatus_NoCodeCheck(project, vm, zone, o) ==
    LET r == RunCommand(DescribeStatusCmd(project, vm, zone), TRUE, o)
        d == JsonLoads(r.stdout)
    IN  IF r.raised # "none" THEN FnResult(r.raised, JNull, 1, r.calls)
        ELSE IF d.ok /\ d.val.k = "obj"
        THEN FnResult("none", DictGet(d.val.m, <<"status">>, JStr(<<"UNKNOWN">>)), 1, r.calls)
        ELSE FnResult("none", JStr(<<"UNKNOWN">>), 1, r.calls)

\* get_vm_status(project, vm_name, zone) when subprocess.run does o
GetVmStatus(project, vm, zone, o) ==
    LET r == RunCommand(DescribeStatusCmd(project, vm, zone), TRUE, o)
        d == JsonLoads(r.stdout)
    IN  IF r.raised # "none" THEN FnResult(r.raised, JNull, 1, r.calls)
        ELSE IF r.code # 0 THEN FnResult("none", JStr(<<"ERROR">>), 1, r.calls)
        ELSE IF d.ok /\ d.val.k = "obj"
        THEN FnResult("none", DictGet(d.val.m, <<"status">>, JStr(<<"UNKNOWN">>)), 1, r.calls)
        \* json.loads raised, or the value has no .get: the bare except
        ELSE FnResult("none", JStr(<<"UNKNOWN">>), 1, r.calls)

ListStatusCmd(project) ==
    << <<"gcloud">>, <<"compute">>, <<"instances">>, <<"list">>,
       <<"--project">>, project, <<"--format">>, <<"json(name,status,zone)">> >>

\* what "for instance in instances" walks over; ok = FALSE: not iterable (TypeError)
Iterate(v) ==
    CASE v.k = "arr" -> [ok |-> TRUE, items |-> [i \in 1..Len(v.m) |-> v.m[i].val]]
      \* a dict yields its keys
      [] v.k = "obj" -> [ok |-> TRUE, items |-> [i \in 1..Len(v.m) |-> JStr(v.m[i].key)]]
      \* a string yields its characters, each a string
      [] v.k = "str" ->
           [ok |-> TRUE, items |-> IF v.s = <<>> THEN <<>> ELSE <<JStr(<<Head(v.s)>>)>>]
      [] OTHER -> [ok |-> FALSE, items |-> <<>>]

RECURSIVE CollectStatuses(_, _)
\* the loop body of get_all_vm_statuses; an exception in it ends the loop and
\* leaves in statuses what was stored before
CollectStatuses(items, statuses) ==
    IF items = <<>> THEN statuses
    ELSE LET inst == Head(items)
             name == DictGet(inst.m, <<"name">>, JStr(<<>>))
             status == DictGet(inst.m, <<"status">>, JStr(<<"UNKNOWN">>))
         IN  IF inst.k # "obj" THEN statuses        \* AttributeError: no .get
             ELSE IF name.k \in {"arr", "obj"} THEN statuses   \* TypeError: unhashable
             ELSE CollectStatuses(Tail(items), DictSet(statuses, name, status))

\* get_all_vm_statuses(project) when subprocess.run does o
GetAllVmStatuses(project, o) ==
    LET r == RunCommand(ListStatusCmd(project), TRUE, o)
        d == JsonLoads(r.stdout)
    IN  IF r.raised # "none" THEN FnResult(r.raised, <<>>, 1, r.calls)
        ELSE IF r.code # 0 THEN FnResult("none", <<>>, 1, r.calls)
        ELSE IF ~d.ok \/ ~Iterate(d.val).ok THEN FnResult("none", <<>>, 1, r.calls)
        ELSE FnResult("none", CollectStatuses(Iterate(d.val).items, <<>>), 1, r.calls)

(***************************************************************************)
(* The command layer called with every argument and every outcome of the   *)
(* child process.  procCalls holds the calls of subprocess.run of the last *)
(* call.                                                                   *)
(***************************************************************************)
TestCommands ==
    { << <<"test">>, <<"command">> >>, << <<"gcloud">>, <<"--version">> >> }

NoOutcome == [kind |-> "none", rc |-> 0, out |-> EmptyText, err |-> EmptyText]

NoRet == [code |-> 0, stdout |-> EmptyText, stderr |-> EmptyText]

CmdIdle ==
    /\ cmdFn = "none"
    /\ cmdArgs = <<>>
    /\ cmdCapture = TRUE
    /\ cmdOutcome = NoOutcome
    /\ cmdRaised = "none"
    /\ runCalls = 0
    /\ rcRet = NoRet
    /\ vsRet = JNull
    /\ avRet = <<>>

Cmd_RunCommand(command, capture, o) ==
    LET r == RunCommand(command, capture, o)
    IN  /\ cmdFn = "none"
        /\ cmdFn' = "run_command"
        /\ cmdArgs' = command
        /\ cmdCapture' = capture
        /\ cmdOutcome' = o
        /\ cmdRaised' = r.raised
        /\ runCalls' = 1
        /\ rcRet' = IF r.raised = "none"
                    THEN [code |-> r.code, stdout |-> r.stdout, stderr |-> r.stderr]
                    ELSE NoRet
        /\ procCalls' = r.calls
        /\ vsRet' = JNull
        /\ avRet' = <<>>
        /\ UNCHANGED nonCmdVars

Cmd_GetVmStatus(project, vm, zone, o) ==
    LET r == GetVmStatus(project, vm, zone, o)
    IN  /\ cmdFn = "none"
        /\ cmdFn' = "get_vm_status"
        /\ cmdArgs' = <<project, vm, zone>>
        /\ cmdCapture' = TRUE
        /\ cmdOutcome' = o
        /\ cmdRaised' = r.raised
        /\ runCalls' = r.runs
        /\ vsRet' = r.val
        /\ procCalls' = r.calls
        /\ rcRet' = NoRet
        /\ avRet' = <<>>
        /\ UNCHANGED nonCmdVars

Cmd_GetAllVmStatuses(project, o) ==
    LET r == GetAllVmStatuses(project, o)
    IN  /\ cmdFn = "none"
        /\ cmdFn' = "get_all_vm_statuses"
        /\ cmdArgs' = <<project>>
        /\ cmdCapture' = TRUE
        /\ cmdOutcome' = o
        /\ cmdRaised' = r.raised
        /\ runCalls' = r.runs
        /\ avRet' = r.val
        /\ procCalls' = r.calls
        /\ rcRet' = NoRet
        /\ vsRet' = JNull
        /\ UNCHANGED nonCmdVars

CmdNext ==
    \/ \E c \in TestCommands, capture \in BOOLEAN, o \in ProcOutcomes :
          Cmd_RunCommand(c, capture, o)
    \/ \E p \in Projects, v \in VmNames, z \in Zones, o \in ProcOutcomes :
          Cmd_GetVmStatus(p, v, z, o)
    \/ \E p \in Projects, o \in ProcOutcomes : Cmd_GetAllVmStatuses(p, o)

(***************************************************************************)
(* Claims about the command layer (checked under SpecCmd).                 *)
(***************************************************************************)
\* C6: run_command(cmd) runs cmd as exactly one child process and, whatever the
\* child's exit code, returns the child's exit code, standard output and standard
\* error (as far as they were captured) and raises nothing.
C6_RunCommandReturnsChild ==
    (cmdFn = "run_command" /\ cmdOutcome.kind = "completed") =>
        /\ cmdRaised = "none"
        /\ procCalls = <<[argv |-> cmdArgs, capture |-> cmdCapture]>>
        /\ rcRet.code = cmdOutcome.rc
        /\ cmdCapture => (rcRet.stdout = cmdOutcome.out /\ rcRet.stderr = cmdOutcome.err)

\* a child that exited with code 2 and wrote to both streams
C6_Witness ==
    /\ cmdFn = "run_command"
    /\ cmdCapture
    /\ cmdOutcome.kind = "completed"
    /\ cmdOutcome.rc = 2
    /\ rcRet = [code |-> 2, stdout |-> <<W("not"), W("json")>>,
                stderr |-> <<W("error"), W("message")>>]

\* C7: when starting the process raises an exception with message m, run_command
\* raises nothing and returns (1, "", m).
C7_StartupExceptionReturned ==
    (cmdFn = "run_command" /\ cmdOutcome.kind = "exception") =>
        /\ cmdRaised = "none"
        /\ rcRet = [code |-> 1, stdout |-> EmptyText, stderr |-> cmdOutcome.err]
        /\ Len(procCalls) = 1

\* the startup raised "boom"
C7_Witness ==
    /\ cmdFn = "run_command"
    /\ cmdOutcome.kind = "exception"
    /\ rcRet = [code |-> 1, stdout |-> <<>>, stderr |-> <<W("boom")>>]

\* the command failed: it exited non-zero, or could not be started (run_command
\* then answers with code 1)
CommandFailed == cmdOutcome.kind = "exception" \/ cmdOutcome.rc # 0

HasStatusField(v) == v.k = "obj" /\ \E i \in 1..Len(v.m) : v.m[i].key = <<"status">>

\* C8: get_vm_status returns "ERROR" whenever the describe command fails, whatever
\* it wrote; when it exits zero it returns the "status" field of the JSON object on
\* standard output, and "UNKNOWN" when the output is no JSON, no JSON object, or an
\* object without "status"; whatever the command does, nothing is raised.
C8_VmStatus ==
    (cmdFn = "get_vm_status" /\ cmdOutcome.kind # "interrupt") =>
        /\ cmdRaised = "none"
        /\ IF CommandFailed THEN vsRet = JStr(<<"ERROR">>)
           ELSE LET d == JsonLoads(cmdOutcome.out)
                IN  IF d.ok /\ HasStatusField(d.val)
                    THEN \E i \in 1..Len(d.val.m) :
                            /\ d.val.m[i].key = <<"status">>
                            /\ vsRet = d.val.m[i].val
                    ELSE vsRet = JStr(<<"UNKNOWN">>)

\* the describe command exited zero and wrote a JSON array: UNKNOWN
C8_Witness ==
    /\ cmdFn = "get_vm_status"
    /\ cmdOutcome.kind = "completed"
    /\ cmdOutcome.rc = 0
    /\ cmdOutcome.out = <<P("["), P("]")>>
    /\ vsRet = JStr(<<"UNKNOWN">>)

\* the output parses as a list of instance objects
IsInstanceList(text) ==
    /\ JsonLoads(text).ok
    /\ JsonLoads(text).val.k = "arr"
    /\ \A i \in 1..Len(JsonLoads(text).val.m) : JsonLoads(text).val.m[i].val.k = "obj"

NameOf(inst) == DictGet(inst.m, <<"name">>, JStr(<<>>))

StatusOf(inst) == DictGet(inst.m, <<"status">>, JStr(<<"UNKNOWN">>))

\* the map from each listed instance's name to its status (of a name listed twice,
\* the later status)
ListedStatuses(text) ==
    LET m == JsonLoads(text).val.m
    IN  { <<NameOf(m[i].val),
            StatusOf(m[MaxOf({j \in 1..Len(m) : NameOf(m[j].val) = NameOf(m[i].val)})].val)>> :
          i \in 1..Len(m) }

DictItems(d) == { <<d[i].key, d[i].val>> : i \in 1..Len(d) }

\* C9: get_all_vm_statuses returns the empty map whenever the list command fails or
\* its output cannot be parsed as a list of instance objects, and otherwise exactly
\* the map from each listed instance's name to its status; it calls run_command
\* exactly once and raises nothing.
C9_AllStatusesOrEmpty ==
    (cmdFn = "get_all_vm_statuses" /\ cmdOutcome.kind # "interrupt") =>
        /\ cmdRaised = "none"
        /\ runCalls = 1
        /\ IF CommandFailed \/ ~IsInstanceList(cmdOutcome.out)
           THEN avRet = <<>>
           ELSE /\ DictItems(avRet) = ListedStatuses(cmdOutcome.out)
                /\ Cardinality(DictItems(avRet)) = Len(avRet)

(***************************************************************************)
(* The configuration: config.json, load_config, save_config,               *)
(* get_project_list.                                                       *)
(***************************************************************************)
\* {"projects": {}}
DefaultConfig == JObj(<<Member(<<"projects">>, JObj(<<>>))>>)

\* {"vms": []}
NewProject == JObj(<<Member(<<"vms">>, JArr(<<>>))>>)

\* a configuration with the projects names, none with a VM
ConfigOf(names) ==
    JObj(<<Member(<<"projects">>,
                  JObj([i \in 1..Len(names) |-> Member(names[i], NewProject)]))>>)

\* the config file: whether it exists, whether it is JSON, and the value in it
File(exists, ok, val) == [exists |-> exists, ok |-> ok, val |-> val]

\* a load that returns the default for a missing file and leaves it missing
LoadConfig_NoCreate(f) ==
    IF f.exists /\ f.ok THEN [config |-> f.val, file |-> f, msgs |-> <<>>]
    ELSE [config |-> DefaultConfig, file |-> f, msgs |-> <<>>]

\* load_config(path): a missing file is created with the default
LoadConfig(f) ==
    IF ~f.exists
    THEN [config |-> DefaultConfig, file |-> File(TRUE, TRUE, DefaultConfig), msgs |-> <<>>]
    ELSE IF f.ok THEN [config |-> f.val, file |-> f, msgs |-> <<>>]
    ELSE [config |-> DefaultConfig, file |-> f, msgs |-> <<"Error loading config file: ">>]

\* save_config(config, path)
SaveConfig(config) == File(TRUE, TRUE, config)

\* get_project_list(path); ok = FALSE: an AttributeError (no .get, no .keys)
GetProjectList(f) ==
    LET l == LoadConfig(f)
        ps == IF l.config.k = "obj" THEN DictGet(l.config.m, <<"projects">>, JObj(<<>>))
              ELSE JNull
    IN  IF ps.k = "obj"
        THEN [ok |-> TRUE, list |-> [i \in 1..Len(ps.m) |-> ps.m[i].key], file |-> l.file,
              msgs |-> l.msgs]
        ELSE [ok |-> FALSE, list |-> <<>>, file |-> l.file, msgs |-> l.msgs]

\* main() is not running
MenuIdle ==
    /\ pc = "none"
    /\ resume = "none"
    /\ lastInput = <<>>
    /\ msgs = <<>>
    /\ dispatched = <<>>
    /\ exitCode = -1
    /\ cfgFile = File(FALSE, FALSE, JNull)
    /\ cfgMem = JNull
    /\ answers = <<>>
    /\ codes = <<>>
    /\ debugLine = <<>>
    /\ curProject = <<>>
    /\ vmList = <<>>
    /\ curVm = JNull
    /\ vmStatus = JNull
    /\ svcList = <<>>
    /\ curService = JNull
    /\ debugMode = FALSE
    /\ serviceUrl = JNull
    /\ authToken = <<>>

(***************************************************************************)
(* The interactive port-forward configurator, configure_port_forwarding.   *)
(* Its code is not among the sources (only its tests are): it is modelled  *)
(* from sections 4.2 and 8 of the specification.                           *)
(***************************************************************************)
MinPort == 1

MaxPort == 65535

\* the validation rule of one port: int(text) succeeds and 1 <= port <= 65535
PortRangeOk_Mutant(n) == 0 <= n /\ n <= MaxPort

PortRangeOk(n) == MinPort <= n /\ n <= MaxPort

ParsePort(s) ==
    LET p == ParseInt(s)
    IN  IF p.ok /\ PortRangeOk(p.val) THEN [ok |-> TRUE, val |-> p.val]
        ELSE [ok |-> FALSE, val |-> 0]

TunnelCommand_Mutant(project, vm, zone, R, L) ==
    << <<"gcloud">>, <<"compute">>, <<"start-iap-tunnel">>, vm, IntToStr(L),
       <<"--local-host-port">>, <<"localhost:">> \o IntToStr(R),
       <<"--project">>, project, <<"--zone">>, zone >>

\* the argument vector of the tunnel
TunnelCommand(project, vm, zone, R, L) ==
    << <<"gcloud">>, <<"compute">>, <<"start-iap-tunnel">>, vm, IntToStr(R),
       <<"--local-host-port">>, <<"localhost:">> \o IntToStr(L),
       <<"--project">>, project, <<"--zone">>, zone >>

\* where the remote port prompt goes on a text it accepts
AfterRemotePort_Mutant == "LaunchTunnel"

AfterRemotePort == "AwaitLocalPort"

PFOnLaunchException_Mutant == [state |-> "Failed", report |-> "none", raised |-> "Exception"]

\* process startup raised: caught, reported, not propagated
PFOnLaunchException == [state |-> "Failed", report |-> "error", raised |-> "none"]

PFOnInterrupt_Mutant == [state |-> "TerminatedByUser", report |-> "error", raised |-> "none"]

\* Ctrl-C while the tunnel runs: caught, reported as a clean stop, not propagated
PFOnInterrupt == [state |-> "TerminatedByUser", report |-> "terminated", raised |-> "none"]

PFTerminal == {"Exited", "Failed", "TerminatedByUser"}

\* configure_port_forwarding has not been called
PFIdle ==
    /\ pfState = "Idle"
    /\ pfArgs = [project |-> <<>>, vm |-> <<>>, zone |-> <<>>]
    /\ pfInput = <<>>
    /\ pfRetries = 0
    /\ remotePort = 0
    /\ localPort = 0
    /\ pfReport = "none"
    /\ pfRaised = "none"
    /\ pfReturned = FALSE

\* configure_port_forwarding(project, vm_name, zone) is entered
PFInit ==
    /\ procCalls = <<>>
    /\ pfState = "AwaitRemotePort"
    /\ pfArgs \in [project : Projects, vm : VmNames, zone : Zones]
    /\ pfInput = <<>>
    /\ pfRetries = 0
    /\ remotePort = 0
    /\ localPort = 0
    /\ pfReport = "none"
    /\ pfRaised = "none"
    /\ pfReturned = FALSE
    /\ CmdIdle
    /\ MenuIdle

\* the remote port prompt reads s
PF_ReadRemotePort(s) ==
    /\ pfState = "AwaitRemotePort"
    /\ pfInput' = s
    /\ IF ParsePort(s).ok
       THEN /\ remotePort' = ParsePort(s).val
            /\ pfState' = AfterRemotePort
            /\ UNCHANGED pfRetries
       ELSE /\ pfRetries < MaxRetries
            /\ pfRetries' = pfRetries + 1
            /\ UNCHANGED <<remotePort, pfState>>
    /\ UNCHANGED <<procCalls, pfArgs, localPort, pfReport, pfRaised, pfReturned>>
    /\ UNCHANGED nonPfVars

\* the local port prompt reads s
PF_ReadLocalPort(s) ==
    /\ pfState = "AwaitLocalPort"
    /\ pfInput' = s
    /\ IF ParsePort(s).ok
       THEN /\ localPort' = ParsePort(s).val
            /\ pfState' = "LaunchTunnel"
            /\ UNCHANGED pfRetries
       ELSE /\ pfRetries < MaxRetries
            /\ pfRetries' = pfRetries + 1
            /\ UNCHANGED <<localPort, pfState>>
    /\ UNCHANGED <<procCalls, pfArgs, remotePort, pfReport, pfRaised, pfReturned>>
    /\ UNCHANGED nonPfVars

\* subprocess.run(cmd): the child starts, or process startup raises
PF_LaunchTunnel(starts) ==
    /\ pfState = "LaunchTunnel"
    /\ procCalls' = Append(procCalls,
           [argv |-> TunnelCommand(pfArgs.project, pfArgs.vm, pfArgs.zone,
                                   remotePort, localPort),
            capture |-> FALSE])
    /\ IF starts
       THEN /\ pfState' = "Running"
            /\ UNCHANGED <<pfReport, pfRaised>>
       ELSE /\ pfState' = PFOnLaunchException.state
            /\ pfReport' = PFOnLaunchException.report
            /\ pfRaised' = PFOnLaunchException.raised
    /\ UNCHANGED <<pfArgs, pfInput, pfRetries, remotePort, localPort, pfReturned>>
    /\ UNCHANGED nonPfVars

\* the tunnel process ends by itself
PF_TunnelExits ==
    /\ pfState = "Running"
    /\ pfState' = "Exited"
    /\ UNCHANGED <<procCalls, pfArgs, pfInput, pfRetries, remotePort, localPort,
                   pfReport, pfRaised, pfReturned>>
    /\ UNCHANGED nonPfVars

\* the user interrupts the running tunnel
PF_Interrupt ==
    /\ pfState = "Running"
    /\ pfState' = PFOnInterrupt.state
    /\ pfReport' = PFOnInterrupt.report
    /\ pfRaised' = PFOnInterrupt.raised
    /\ UNCHANGED <<procCalls, pfArgs, pfInput, pfRetries, remotePort, localPort,
                   pfReturned>>
    /\ UNCHANGED nonPfVars

\* "Press Enter to continue...", then back in the calling menu
PF_Return ==
    /\ pfState \in PFTerminal
    /\ pfRaised = "none"
    /\ ~pfReturned
    /\ pfReturned' = TRUE
    /\ UNCHANGED <<procCalls, pfState, pfArgs, pfInput, pfRetries, remotePort,
                   localPort, pfReport, pfRaised>>
    /\ UNCHANGED nonPfVars

PFNext ==
    \/ \E s \in PortInputs : PF_ReadRemotePort(s)
    \/ \E s \in PortInputs : PF_ReadLocalPort(s)
    \/ \E starts \in BOOLEAN : PF_LaunchTunnel(starts)
    \/ PF_TunnelExits
    \/ PF_Interrupt
    \/ PF_Return

(***************************************************************************)
(* Claims about the port-forward configurator (checked under SpecPF).      *)
(***************************************************************************)
\* a port text is valid: it parses as an integer n with 1 <= n <= 65535
PortTextValid(s) == ParseInt(s).ok /\ ParseInt(s).val >= 1 /\ ParseInt(s).val <= 65535

PFAwaiting == {"AwaitRemotePort", "AwaitLocalPort"}

\* C1: a port input that is non-numeric or outside [1, 65535] re-prompts the same
\* port and invokes no external command; a port prompt is left only by a valid
\* port, however many inputs were rejected before, and a command is invoked only
\* after both ports are valid.
C1_InvalidPortReprompts ==
    /\ [][(pfState \in PFAwaiting /\ ~PortTextValid(pfInput'))
            => /\ pfState' = pfState
               /\ pfRetries' = pfRetries + 1
               /\ procCalls' = procCalls
               /\ remotePort' = remotePort
               /\ localPort' = localPort]_vars
    /\ [](pfState # "AwaitRemotePort" => remotePort \in 1..65535)
    /\ [](pfState \notin PFAwaiting => localPort \in 1..65535)
    /\ [](procCalls # <<>> => remotePort \in 1..65535 /\ localPort \in 1..65535)

\* the local port was rejected after the remote port had been rejected and then
\* accepted, and no command has run
C1_Witness ==
    /\ pfState = "AwaitLocalPort"
    /\ pfRetries >= 2
    /\ remotePort = 8080
    /\ ~PortTextValid(pfInput)
    /\ procCalls = <<>>

\* C2: with valid ports R and L the configurator calls the external process
\* exactly once, with the vector [gcloud, compute, start-iap-tunnel, vm, R,
\* --local-host-port, localhost:L, --project, project, --zone, zone], output not
\* captured; before the launch it has called nothing.
C2_TunnelVectorOnce ==
    IF pfState \in PFAwaiting \cup {"LaunchTunnel"}
    THEN procCalls = <<>>
    ELSE procCalls =
           << [argv |-> << <<"gcloud">>, <<"compute">>, <<"start-iap-tunnel">>,
                           pfArgs.vm, IntToStr(remotePort), <<"--local-host-port">>,
                           <<"localhost:">> \o IntToStr(localPort), <<"--project">>,
                           pfArgs.project, <<"--zone">>, pfArgs.zone >>,
               capture |-> FALSE] >>

\* the tunnel of remote port 8080 to local port 1 has run and ended
C2_Witness ==
    /\ pfState = "Exited"
    /\ remotePort = 8080
    /\ localPort = 1
    /\ Len(procCalls) = 1
    /\ procCalls[1].argv[5] = <<"8", "0", "8", "0">>
    /\ procCalls[1].argv[7] = <<"localhost:", "1">>

PFTransitions ==
    { <<"AwaitRemotePort", "AwaitLocalPort">>, <<"AwaitLocalPort", "LaunchTunnel">>,
      <<"LaunchTunnel", "Running">>, <<"LaunchTunnel", "Failed">>,
      <<"Running", "Exited">>, <<"Running", "TerminatedByUser">> }

\* C3: the configurator moves AwaitRemotePort -> AwaitLocalPort -> LaunchTunnel and
\* from there to Running or Failed, and from Running to a normal exit or
\* TerminatedByUser; the local port is asked for only once the remote port is
\* valid, the tunnel is launched only after both, and control returns from exactly
\* one terminal outcome, which never changes afterwards.
C3_StateMachine ==
    /\ [][pfState' # pfState => <<pfState, pfState'>> \in PFTransitions]_vars
    /\ [](pfState = "AwaitRemotePort" => remotePort = 0 /\ localPort = 0)
    /\ [](pfState = "AwaitLocalPort" => remotePort \in 1..65535 /\ localPort = 0)
    /\ [](procCalls # <<>> => pfState \in {"Running"} \cup PFTerminal)
    /\ [](pfReturned => pfState \in PFTerminal)

\* a run that rejected a remote and a local port and came back interrupted
C3_Witness ==
    /\ pfReturned
    /\ pfState = "TerminatedByUser"
    /\ pfRetries >= 2

\* C4: when starting the tunnel raises, the exception does not leave the
\* configurator: the command was attempted exactly once, the error was reported,
\* and control returns (or has returned) to the caller.
C4_LaunchExceptionCaught ==
    pfState = "Failed" =>
        /\ pfRaised = "none"
        /\ Len(procCalls) = 1
        /\ pfReport = "error"
        /\ (pfReturned \/ ENABLED PF_Return)

\* the launch failed and control is back in the menu
C4_Witness == pfState = "Failed" /\ pfReturned /\ Len(procCalls) = 1

\* C5: when the user interrupts the running tunnel, the interrupt does not leave
\* the configurator: the command was attempted exactly once, the stop was reported
\* as a clean termination and not as an error, and control returns to the caller.
C5_InterruptCaught ==
    pfState = "TerminatedByUser" =>
        /\ pfRaised = "none"
        /\ Len(procCalls) = 1
        /\ pfReport = "terminated"
        /\ (pfReturned \/ ENABLED PF_Return)

\* the tunnel was interrupted and control is back in the menu
C5_Witness == pfState = "TerminatedByUser" /\ pfReturned /\ pfReport = "terminated"

(***************************************************************************)
(* The menus of main().  A step is one read of a numbered choice, of a     *)
(* "Press Enter" prompt or of the "cloud-run-debug>" prompt, and all the   *)
(* program does until it waits at the next of these; what the other        *)
(* free-text prompts of an action read is part of the step.  procCalls     *)
(* holds the calls of subprocess.run of the last step.                     *)
(***************************************************************************)
\* the texts the user types at a numbered choice:
\* "", "abc", "-1", "0" .. "9", "10", " 2 "
ChoiceInputs ==
    { <<>>, <<"a", "b", "c">>, <<"-", "1">>, <<"1", "0">>, <<" ", "2", " ">> }
        \cup { <<d>> : d \in Digits }

\* the answers to a (y/N) question
ConfirmInputs == { <<"y">>, <<"Y">>, <<"n">>, <<>> }

\* the names typed at "Enter project name"
ProjectNameInputs == Projects \cup { <<>> }

\* the texts typed at a path prompt and at a command prompt
PathInputs == { <<>>, <<"file.txt">> }

CommandInputs == { <<>>, <<"ls -la">> }

\* str.lower() on an answer
Lower(s) ==
    [i \in 1..Len(s) |-> CASE s[i] = "Y" -> "y"
                            [] s[i] = "EXIT" -> "exit"
                            [] OTHER -> s[i]]

\* the lines typed at the "cloud-run-debug>" prompt
InteractiveInputs == { <<"exit">>, <<"EXIT">>, <<"ls -la">>, <<>> }

\* a descriptor with a description of the user's
RememberedDb ==
    JObj(<<Member(<<"name">>, JStr(<<"db-1">>)),
           Member(<<"zone">>, JStr(<<"europe-west1", "-", "b">>)),
           Member(<<"region">>, JStr(<<"Europe">>)),
           Member(<<"description">>, JStr(<<"database">>))>>)

\* config.json when the program starts: missing, not JSON, {}, and configurations
InitialFiles ==
    { File(FALSE, FALSE, JNull),
      File(TRUE, FALSE, JNull),
      File(TRUE, TRUE, JObj(<<>>)),
      File(TRUE, TRUE, DefaultConfig),
      File(TRUE, TRUE, ConfigOf(<< <<"test-project">> >>)),
      \* {"projects": {"test-project": {"vms": [{"name": "db-1", "zone":
      \*  "europe-west1-b", "region": "Europe", "description": "database"}]}}}
      File(TRUE, TRUE,
           JObj(<<Member(<<"projects">>,
                         JObj(<<Member(<<"test-project">>,
                                       JObj(<<Member(<<"vms">>, JArr(<<Member(<<>>, RememberedDb)>>))>>))>>))>>)),
      \* {"projects": {"production-1": {}}}
      File(TRUE, TRUE,
           JObj(<<Member(<<"projects">>,
                         JObj(<<Member(<<"production-1">>, JObj(<<>>))>>))>>)),
      \* {"projects": {"test-project": {"vms": []}, "production-1": {}}}
      File(TRUE, TRUE,
           JObj(<<Member(<<"projects">>,
                         JObj(<<Member(<<"test-project">>, NewProject),
                                Member(<<"production-1">>, JObj(<<>>))>>))>>)) }

\* main() has loaded the configuration and shows the main menu
Init ==
    /\ \E f \in InitialFiles :
         /\ cfgFile = LoadConfig(f).file
         /\ cfgMem = LoadConfig(f).config
         /\ msgs = LoadConfig(f).msgs
    /\ pc = "main_menu"
    /\ resume = "none"
    /\ lastInput = <<>>
    /\ dispatched = <<>>
    /\ exitCode = -1
    /\ answers = <<>>
    /\ codes = <<>>
    /\ debugLine = <<>>
    /\ curProject = <<>>
    /\ vmList = <<>>
    /\ curVm = JNull
    /\ vmStatus = JNull
    /\ svcList = <<>>
    /\ curService = JNull
    /\ debugMode = FALSE
    /\ serviceUrl = JNull
    /\ authToken = <<>>
    /\ procCalls = <<>>
    /\ PFIdle
    /\ CmdIdle

\* what a prompt reads when the user types Ctrl-C
CtrlC == <<"^C">>

\* the step read s, called the functions disp and the commands calls, said ms,
\* and waits at the numbered choice next
Step(next, s, ms, disp, calls) ==
    /\ pc' = next
    /\ resume' = "none"
    /\ lastInput' = s
    /\ msgs' = ms
    /\ dispatched' = disp
    /\ procCalls' = calls
    /\ exitCode' = exitCode

\* the same, and the step waits at "Press Enter"; the menu after is shown then
Pause(after, s, ms, disp, calls) ==
    /\ pc' = "press_enter"
    /\ resume' = after
    /\ lastInput' = s
    /\ msgs' = ms
    /\ dispatched' = disp
    /\ procCalls' = calls
    /\ exitCode' = exitCode

\* an end of main() with the exit code 0 whatever was raised
Exit_AlwaysZero(raised, s, ms, disp, calls) ==
    /\ pc' = "exited"
    /\ resume' = "none"
    /\ lastInput' = s
    /\ msgs' = ms \o (IF raised \in {"none", "KeyboardInterrupt"} THEN <<"Goodbye!">>
                      ELSE <<"An unexpected error occurred: ">>)
    /\ dispatched' = disp
    /\ procCalls' = calls
    /\ exitCode' = 0

\* main(): sys.exit(0) on choice 0 and on KeyboardInterrupt, sys.exit(1) on an
\* Exception
Exit(raised, s, ms, disp, calls) ==
    /\ pc' = "exited"
    /\ resume' = "none"
    /\ lastInput' = s
    /\ msgs' = ms \o (CASE raised = "none" -> <<"Goodbye!">>
                         [] raised = "KeyboardInterrupt" -> <<"Goodbye!">>
                         [] OTHER -> <<"An unexpected error occurred: ">>)
    /\ dispatched' = disp
    /\ procCalls' = calls
    /\ exitCode' = IF raised \in {"none", "KeyboardInterrupt"} THEN 0 ELSE 1

\* the step ends at the prompt next, or in main()'s handlers when raised
StepOrExit(raised, next, s, ms, disp, calls) ==
    IF raised = "none" THEN Step(next, s, ms, disp, calls)
    ELSE Exit(raised, s, ms, disp, calls)

PauseOrExit(raised, after, s, ms, disp, calls) ==
    IF raised = "none" THEN Pause(after, s, ms, disp, calls)
    ELSE Exit(raised, s, ms, disp, calls)

\* display_projects(path) up to its prompt: raised, or choice 0 returned at once
\* (prompt = FALSE), or the prompt
DisplayProjects(f) ==
    LET g == GetProjectList(f)
    IN  IF ~g.ok
        THEN [raised |-> "AttributeError", prompt |-> FALSE, msgs |-> g.msgs, file |-> g.file]
        ELSE IF g.list = <<>>
        THEN [raised |-> "none", prompt |-> FALSE, file |-> g.file,
              msgs |-> g.msgs \o <<"No projects configured. Please add a project first.">>]
        ELSE [raised |-> "none", prompt |-> TRUE, msgs |-> g.msgs, file |-> g.file]

(***************************************************************************)
(* display_vms: the listing and its reconciliation with the configuration. *)
(***************************************************************************)
ListVmsCmd(project) ==
    << <<"gcloud">>, <<"compute">>, <<"instances">>, <<"list">>, <<"--project">>, project,
       <<"--format">>, <<"json(name,zone,machineType,status,networkInterfaces[0].networkIP)">> >>

\* "https://www.googleapis.com/compute/v1/projects/p/" \o kind \o "/" \o leaf
ResourceUrl(kind, leaf) ==
    <<"https:", "/", "/", "www.googleapis.com", "/", "compute", "/", "v1", "/", "projects",
      "/", "p", "/", kind, "/">> \o leaf

\* one instance of the listing, as gcloud prints it
InstanceText(name, zone, machineType, status) ==
    <<P("{"), S("name"), P(":"), S(name), P(","),
      S("zone"), P(":"), Tok("str", ResourceUrl("zones", zone)), P(","),
      S("machineType"), P(":"), Tok("str", ResourceUrl("machineTypes", <<machineType>>)),
      P(","), S("status"), P(":"), S(status), P("}")>>

\* an instance without zone and machine type
BareInstanceText(name, status) ==
    <<P("{"), S("name"), P(":"), S(name), P(","), S("status"), P(":"), S(status), P("}")>>

\* bool(v) is False
Falsy(v) ==
    \/ v.k = "null"
    \/ v.k = "bool" /\ v.s = <<"false">>
    \/ v.k = "num" /\ v.s = <<"0">>
    \/ v.k = "str" /\ v.s = <<>>
    \/ v.k \in {"arr", "obj"} /\ v.m = <<>>

\* s.split('/')[-1]
SplitLast(s) ==
    LET I == {i \in 1..Len(s) : s[i] = "/"}
    IN  IF I = {} THEN s ELSE SubSeq(s, MaxOf(I) + 1, Len(s))

\* zone[:-2] if zone and len(zone) > 2 else "Unknown"
RegionOf(zone) == IF Len(zone) > 2 THEN SubSeq(zone, 1, Len(zone) - 2) ELSE Unknown

\* the friendly name of a region: by what the region starts with
RegionDisplay(region) ==
    LET h == IF region = <<>> THEN "" ELSE Head(region)
    IN  CASE h \in {"us-central1", "us-central2"} -> <<"US Central">>
          [] h \in {"us-west1", "us-west2"} -> <<"US West">>
          [] h \in {"us-east1", "us-east4"} -> <<"US East">>
          [] h \in {"europe-west1", "europe-north1"} -> <<"Europe">>
          [] h \in {"asia-east1", "asia-south1"} -> <<"Asia">>
          [] OTHER -> region

\* the elements of a parsed array
Elements(v) == [i \in 1..Len(v.m) |-> v.m[i].val]

\* the array of the elements xs
ArrayOf(xs) == JArr([i \in 1..Len(xs) |-> Member(<<>>, xs[i])])

MinOf(I) == CHOOSE i \in I : \A j \in I : i <= j

\* a search that finds no entry
FindVm_None(configured, name, zone) == [ok |-> TRUE, at |-> 0]

\* the entry of configured_vms the loops stop at: the first with this name and zone
\* (0: none); ok = FALSE: an entry before it is no dict (AttributeError)
FindVm(configured, name, zone) ==
    LET M == {i \in 1..Len(configured) :
                /\ configured[i].k = "obj"
                /\ DictGet(configured[i].m, <<"name">>, JNull) = name
                /\ DictGet(configured[i].m, <<"zone">>, JNull) = JStr(zone)}
        B == {i \in 1..Len(configured) : configured[i].k # "obj"}
        at == IF M = {} THEN 0 ELSE MinOf(M)
    IN  [ok |-> B = {} \/ (at # 0 /\ at < MinOf(B)), at |-> at]

\* the row of the table and the entry of the configuration
VmRow(name, zone, region, status, description) ==
    JObj(<<Member(<<"name">>, name), Member(<<"zone">>, JStr(zone)),
           Member(<<"region">>, JStr(region)), Member(<<"status">>, status),
           Member(<<"description">>, description)>>)

VmEntry(name, zone, region, description) ==
    JObj(<<Member(<<"name">>, name), Member(<<"zone">>, JStr(zone)),
           Member(<<"region">>, JStr(region)), Member(<<"description">>, description)>>)

RECURSIVE ReconcileVms(_, _, _)
\* the loop over the instances: the rows collected, and configured_vms with the
\* entries appended; ok = FALSE: an exception left the loop
ReconcileVms(items, configured, rows) ==
    IF items = <<>> THEN [ok |-> TRUE, configured |-> configured, rows |-> rows]
    ELSE LET inst == Head(items)
             name == DictGet(inst.m, <<"name">>, JStr(<<>>))
             zonePath == DictGet(inst.m, <<"zone">>, JStr(<<>>))
             zone == IF Falsy(zonePath) THEN Unknown ELSE SplitLast(zonePath.s)
             region == RegionDisplay(RegionOf(zone))
             mt == DictGet(inst.m, <<"machineType">>, JStr(<<>>))
             machineType == IF Falsy(mt) THEN Unknown ELSE SplitLast(mt.s)
             status == DictGet(inst.m, <<"status">>, JStr(<<"UNKNOWN">>))
             f == FindVm(configured, name, zone)
             default == JStr(machineType \o <<" instance">>)
             description == IF f.at = 0 THEN default
                            ELSE DictGet(configured[f.at].m, <<"description">>, default)
         IN  IF \/ inst.k # "obj"
                \/ ~Falsy(zonePath) /\ zonePath.k # "str"
                \/ ~Falsy(mt) /\ mt.k # "str"
                \/ ~f.ok
             THEN [ok |-> FALSE, configured |-> configured, rows |-> rows]
             ELSE ReconcileVms(Tail(items),
                               IF f.at = 0
                               THEN Append(configured, VmEntry(name, zone, region, description))
                               ELSE configured,
                               Append(rows, VmRow(name, zone, region, status, description)))

\* the names the listings show, in the order of str.__lt__
SortedNames == << <<>>, <<"db-1">>, <<"test-vm">> >>

NameRank(row) ==
    LET n == DictGet(row.m, <<"name">>, JNull).s
    IN  IF \E i \in 1..Len(SortedNames) : SortedNames[i] = n
        THEN CHOOSE i \in 1..Len(SortedNames) : SortedNames[i] = n
        ELSE Len(SortedNames) + 1

RECURSIVE SortByName(_)
\* vms.sort(key=lambda x: x["name"]): stable
SortByName(rows) ==
    IF rows = <<>> THEN <<>>
    ELSE LET front == SortByName(SubSeq(rows, 1, Len(rows) - 1))
             last == rows[Len(rows)]
             n == Cardinality({i \in 1..Len(front) : NameRank(front[i]) <= NameRank(last)})
         IN  SubSeq(front, 1, n) \o <<last>> \o SubSeq(front, n + 1, Len(front))

\* the names of the rows can be compared: one row, or strings only
Sortable(rows) ==
    Len(rows) <= 1 \/ \A i \in 1..Len(rows) : DictGet(rows[i].m, <<"name">>, JNull).k = "str"

ListResult(raised, prompt, rows, file, ms, calls) ==
    [raised |-> raised, prompt |-> prompt, rows |-> rows, file |-> file, msgs |-> ms,
     calls |-> calls]

\* config.get("projects", {}); null: config has no .get
ProjectsOf(config) ==
    IF config.k = "obj" THEN DictGet(config.m, <<"projects">>, JObj(<<>>)) ELSE JNull

\* config.get("projects", {}).get(project, {})
ProjectConfigOf(config, project) ==
    IF ProjectsOf(config).k = "obj"
    THEN DictGet(ProjectsOf(config).m, project, JObj(<<>>)) ELSE JNull

\* project_config.get("vms", [])
ConfiguredVms(projectConfig) ==
    IF projectConfig.k = "obj" THEN DictGet(projectConfig.m, <<"vms">>, JArr(<<>>)) ELSE JNull

\* project_config["vms"] = configured; config["projects"][project] = project_config
StoreVms(config, project, projectConfig, configured) ==
    JObj(DictSet(config.m, <<"projects">>,
                 JObj(DictSet(ProjectsOf(config).m, project,
                              JObj(DictSet(projectConfig.m, <<"vms">>, ArrayOf(configured)))))))

\* display_vms after the loop over the instances (rec), which ran if the listing is
\* iterable: an exception in the try saves nothing
DisplayVmsReconciled(project, calls, l, projectConfig, iterable, rec) ==
    IF \/ ConfiguredVms(projectConfig).k # "arr"
       \/ ~iterable
       \/ ~rec.ok
       \/ ~HasKey(projectConfig.m, <<"vms">>) /\ ~HasKey(l.config.m, <<"projects">>)
       \/ ~Sortable(rec.rows)
    THEN ListResult("none", FALSE, <<>>, l.file, l.msgs \o <<"Error parsing VM list: ">>, calls)
    \* configured_vms is project_config["vms"] itself when that key exists: the two
    \* compare equal and nothing is saved
    ELSE ListResult("none", TRUE, SortByName(rec.rows),
                    IF HasKey(projectConfig.m, <<"vms">>) THEN l.file
                    ELSE SaveConfig(StoreVms(l.config, project, projectConfig, rec.configured)),
                    l.msgs, calls)

\* a listing that stores the instances it found in place of the remembered ones
DisplayVmsLoaded_Fresh(project, calls, l, it) ==
    DisplayVmsReconciled(project, calls, l, JObj(<<>>), it.ok,
                         ReconcileVms(it.items, <<>>, <<>>))

\* display_vms with the configuration loaded (l) and the listing to walk over (it)
DisplayVmsLoaded(project, calls, l, it) ==
    DisplayVmsReconciled(project, calls, l, ProjectConfigOf(l.config, project), it.ok,
                         ReconcileVms(it.items,
                                      Elements(ConfiguredVms(ProjectConfigOf(l.config, project))),
                                      <<>>))

\* display_vms with the listing parsed (d)
DisplayVmsParsed(project, f, calls, d) ==
    IF ~d.ok THEN ListResult("none", FALSE, <<>>, f, <<"Error parsing VM list: ">>, calls)
    ELSE IF Falsy(d.val)
    THEN ListResult("none", FALSE, <<>>, f, <<"No VMs found in this project.">>, calls)
    ELSE DisplayVmsLoaded(project, calls, LoadConfig(f), Iterate(d.val))

\* display_vms with the listing command run (r)
DisplayVmsListed(project, f, r) ==
    IF r.raised # "none" THEN ListResult(r.raised, FALSE, <<>>, f, <<>>, r.calls)
    ELSE IF r.code # 0
    THEN ListResult("none", FALSE, <<>>, f, <<"Failed to get VM list: ">>, r.calls)
    ELSE DisplayVmsParsed(project, f, r.calls, JsonLoads(r.stdout))

\* display_vms(project, path) up to its prompt, when the listing does o: raised, or
\* (None, 0) returned without asking (prompt = FALSE), or the prompt with the rows
DisplayVms(project, f, o) ==
    DisplayVmsListed(project, f, RunCommand(ListVmsCmd(project), TRUE, o))

(***************************************************************************)
(* The actions of vm_action_menu.                                          *)
(***************************************************************************)
\* subprocess.run(argv) called without run_command: what it raises leaves the caller
SubprocessRun(argv, capture, o) ==
    CASE o.kind = "completed" ->
           RunResult("none", o.rc, IF capture THEN o.out ELSE NoneText,
                     IF capture THEN o.err ELSE NoneText, Call(argv, capture))
      [] o.kind = "exception" ->
           RunResult("Exception", 1, EmptyText, o.err, Call(argv, capture))
      [] o.kind = "interrupt" ->
           RunResult("KeyboardInterrupt", 0, EmptyText, EmptyText, Call(argv, capture))

\* what an action did: the exception that left it, what it said, what it ran
Done(raised, ms, calls) == [raised |-> raised, msgs |-> ms, calls |-> calls]

SshToVm(project, vm, zone, o) ==
    LET r == SubprocessRun(<< <<"gcloud">>, <<"compute">>, <<"ssh">>, <<"--zone">>, zone, vm,
                              <<"--tunnel-through-iap">>, <<"--project">>, project >>,
                           FALSE, o)
    IN  Done(r.raised, <<"Connecting to ">>, r.calls)

\* start_vm, stop_vm, reset_vm: verb is "start", "stop", "reset"
PowerCmd(verb, project, vm, zone) ==
    << <<"gcloud">>, <<"compute">>, <<"instances">>, <<verb>>, vm,
       <<"--project">>, project, <<"--zone">>, zone >>

\* a power operation that runs its command again when it failed
PowerVm_Retries(verb, okMsg, failMsg, project, vm, zone, o) ==
    LET r == RunCommand(PowerCmd(verb, project, vm, zone), TRUE, o)
    IN  Done(r.raised, IF r.code = 0 THEN <<okMsg>> ELSE <<failMsg>>,
             IF r.raised = "none" /\ r.code # 0 THEN r.calls \o r.calls ELSE r.calls)

PowerVm(verb, okMsg, failMsg, project, vm, zone, o) ==
    LET r == RunCommand(PowerCmd(verb, project, vm, zone), TRUE, o)
    IN  Done(r.raised, IF r.code = 0 THEN <<okMsg>> ELSE <<failMsg>>, r.calls)

StartVm(project, vm, zone, o) ==
    PowerVm("start", "VM started successfully.", "Failed to start VM: ", project, vm, zone, o)

StopVm(project, vm, zone, o) ==
    PowerVm("stop", "VM stopped successfully.", "Failed to stop VM: ", project, vm, zone, o)

ResetVm(project, vm, zone, o) ==
    PowerVm("reset", "VM reset successfully.", "Failed to reset VM: ", project, vm, zone, o)

ViewVmDetails(project, vm, zone, o) ==
    LET r == RunCommand(<< <<"gcloud">>, <<"compute">>, <<"instances">>, <<"describe">>, vm,
                           <<"--project">>, project, <<"--zone">>, zone,
                           <<"--format">>, <<"json">> >>, TRUE, o)
    IN  Done(r.raised,
             IF r.code # 0 THEN <<"Failed to get VM details: ">>
             ELSE IF JsonLoads(r.stdout).ok THEN <<"details">>
             ELSE <<"Failed to parse VM details.">>,
             r.calls)

ViewVmLogs(project, vm, zone, o) ==
    LET r == RunCommand(<< <<"gcloud">>, <<"compute">>, <<"instances">>,
                           <<"get-serial-port-output">>, vm,
                           <<"--project">>, project, <<"--zone">>, zone >>, TRUE, o)
    IN  Done(r.raised, IF r.code = 0 THEN <<"logs">> ELSE <<"Failed to get VM logs: ">>,
             r.calls)

\* localPath is what "Enter local file path" reads, exists is os.path.exists of it,
\* remotePath is what "Enter remote path" reads
UploadFileToVm(project, vm, zone, localPath, exists, remotePath, o) ==
    LET target == IF remotePath = <<>> THEN <<"~/">> ELSE remotePath
        r == RunCommand(<< <<"gcloud">>, <<"compute">>, <<"scp">>, localPath,
                           vm \o <<":">> \o target,
                           <<"--project">>, project, <<"--zone">>, zone,
                           <<"--tunnel-through-iap">> >>, FALSE, o)
    IN  IF ~exists THEN Done("none", <<"File not found: ">>, <<>>)
        ELSE Done(r.raised,
                  IF r.code = 0 THEN <<"File uploaded successfully.">>
                  ELSE <<"Failed to upload file.">>,
                  r.calls)

DownloadFileFromVm(project, vm, zone, remotePath, localPath, o) ==
    LET target == IF localPath = <<>> THEN <<"./">> ELSE localPath
        r == RunCommand(<< <<"gcloud">>, <<"compute">>, <<"scp">>,
                           vm \o <<":">> \o remotePath, target,
                           <<"--project">>, project, <<"--zone">>, zone,
                           <<"--tunnel-through-iap">> >>, FALSE, o)
    IN  Done(r.raised,
             IF r.code = 0 THEN <<"File downloaded successfully.">>
             ELSE <<"Failed to download file.">>,
             r.calls)

\* a run_command_on_vm that runs what it read, the empty line too
RunCommandOnVm_RunsEmpty(project, vm, zone, command, o) ==
    LET r == RunCommand(<< <<"gcloud">>, <<"compute">>, <<"ssh">>, vm,
                           <<"--project">>, project, <<"--zone">>, zone,
                           <<"--tunnel-through-iap">>, <<"--command">>, command >>, TRUE, o)
    IN  Done(r.raised,
             IF r.code = 0 THEN <<"Command executed successfully.">>
             ELSE <<"Failed to execute command: ">>,
             r.calls)

\* command is what "Enter command to run" reads
RunCommandOnVm(project, vm, zone, command, o) ==
    LET r == RunCommand(<< <<"gcloud">>, <<"compute">>, <<"ssh">>, vm,
                           <<"--project">>, project, <<"--zone">>, zone,
                           <<"--tunnel-through-iap">>, <<"--command">>, command >>, TRUE, o)
    IN  IF command = <<>> THEN Done("none", <<"No command entered.">>, <<>>)
        ELSE Done(r.raised,
                  IF r.code = 0 THEN <<"Command executed successfully.">>
                  ELSE <<"Failed to execute command: ">>,
                  r.calls)

(***************************************************************************)
(* Cloud Run: the listing of the services and the checks of                *)
(* ssh_to_cloud_run.                                                       *)
(***************************************************************************)
ListServicesCmd(project) ==
    << <<"gcloud">>, <<"run">>, <<"services">>, <<"list">>, <<"--project">>, project,
       <<"--format">>, <<"json">> >>

ServicesResult(raised, services, ms, calls) ==
    [raised |-> raised, services |-> services, msgs |-> ms, calls |-> calls]

\* get_cloud_run_services with the listing command run (r)
ServicesListed(r) ==
    IF r.raised # "none" THEN ServicesResult(r.raised, JArr(<<>>), <<>>, r.calls)
    ELSE IF r.code # 0
    THEN ServicesResult("none", JArr(<<>>), <<"Failed to get Cloud Run services: ">>, r.calls)
    ELSE IF ~JsonLoads(r.stdout).ok
    THEN ServicesResult("none", JArr(<<>>), <<"Failed to parse Cloud Run services.">>, r.calls)
    ELSE ServicesResult("none", JsonLoads(r.stdout).val, <<>>, r.calls)

\* get_cloud_run_services(project) when the listing does o
GetCloudRunServices(project, o) ==
    ServicesListed(RunCommand(ListServicesCmd(project), TRUE, o))

RECURSIVE GetPath(_, _, _)
\* v.get(k1, {}).get(k2, {}) ... .get(kn, default); ok = FALSE: an AttributeError
GetPath(v, keys, default) ==
    IF v.k # "obj" THEN [ok |-> FALSE, val |-> JNull]
    ELSE IF Len(keys) = 1 THEN [ok |-> TRUE, val |-> DictGet(v.m, keys[1], default)]
    ELSE GetPath(DictGet(v.m, keys[1], JObj(<<>>)), Tail(keys), default)

\* a list of one empty dict
OneEmptyDict == ArrayOf(<<JObj(<<>>)>>)

\* conditions[0].get("status", default); ok = FALSE: an exception
FirstConditionOf(conditions, default) ==
    IF conditions.ok /\ conditions.val.k = "arr" /\ conditions.val.m # <<>>
       /\ conditions.val.m[1].val.k = "obj"
    THEN [ok |-> TRUE, val |-> DictGet(conditions.val.m[1].val.m, <<"status">>, default)]
    ELSE [ok |-> FALSE, val |-> JNull]

\* v.get("status", {}).get("conditions", [{}])[0].get("status", default)
ConditionStatus(v, default) ==
    FirstConditionOf(GetPath(v, << <<"status">>, <<"conditions">> >>, OneEmptyDict), default)

ServiceName(service) == GetPath(service, << <<"metadata">>, <<"name">> >>, JStr(Unknown))

ServiceRegion(service) ==
    GetPath(service,
            << <<"metadata">>, <<"labels">>, <<"cloud.googleapis.com/location">> >>,
            JStr(Unknown))

ServiceUrl(service) == GetPath(service, << <<"status">>, <<"url">> >>, JStr(Unknown))

\* the row of the table of services can be printed
ServiceRowOk(service) ==
    /\ ServiceName(service).ok
    /\ ServiceRegion(service).ok
    /\ ServiceUrl(service).ok
    /\ ConditionStatus(service, JStr(Unknown)).ok

\* display_cloud_run_services with the services listed (g, to walk over as it)
ServicesTable(g, it) ==
    IF g.raised # "none" THEN ListResult(g.raised, FALSE, <<>>, cfgFile, g.msgs, g.calls)
    ELSE IF Falsy(g.services)
    THEN ListResult("none", FALSE, <<>>, cfgFile,
                    g.msgs \o <<"No Cloud Run services found in this project.">>, g.calls)
    ELSE IF ~it.ok THEN ListResult("TypeError", FALSE, <<>>, cfgFile, g.msgs, g.calls)
    ELSE IF \E i \in 1..Len(it.items) : ~ServiceRowOk(it.items[i])
    THEN ListResult("AttributeError", FALSE, <<>>, cfgFile, g.msgs, g.calls)
    ELSE ListResult("none", TRUE, it.items, cfgFile, g.msgs, g.calls)

DisplayCloudRunServicesOf(g) == ServicesTable(g, Iterate(g.services))

\* display_cloud_run_services(project) up to its prompt, when the listing does o
DisplayCloudRunServices(project, o) ==
    DisplayCloudRunServicesOf(GetCloudRunServices(project, o))

VersionCmd == << <<"gcloud">>, <<"--version">> >>

DescribeServiceCmd(project, service, region, format) ==
    << <<"gcloud">>, <<"run">>, <<"services">>, <<"describe">>, service,
       <<"--project">>, project, <<"--region">>, region, <<"--format">>, format >>

RevisionsCmd(project, service, region) ==
    << <<"gcloud">>, <<"run">>, <<"revisions">>, <<"list">>, <<"--service">>, service,
       <<"--project">>, project, <<"--region">>, region, <<"--format">>, <<"json">> >>

\* what ssh_to_cloud_run came to before its menu: menu = TRUE, the three checks
\* passed and the connection methods are shown
Checked(raised, menu, ms, calls) ==
    [raised |-> raised, menu |-> menu, msgs |-> ms, calls |-> calls]

\* the third check: the revisions
RevisionsChecked(calls, r) ==
    IF r.raised # "none" THEN Checked(r.raised, FALSE, <<>>, calls \o r.calls)
    ELSE IF r.code # 0
    THEN Checked("none", FALSE, <<"Failed to get Cloud Run revisions: ">>, calls \o r.calls)
    ELSE Checked("none", TRUE, <<"Select a connection method:">>, calls \o r.calls)

\* the second check without "if code != 0: return": the revisions are asked for
\* whatever the describe command did
ServiceChecked_GoesOn(project, service, region, os, calls, r) ==
    IF r.raised # "none" THEN Checked(r.raised, FALSE, <<>>, calls \o r.calls)
    ELSE RevisionsChecked(calls \o r.calls,
                          RunCommand(RevisionsCmd(project, service, region), TRUE, os[3]))

\* the second check: the service
ServiceChecked(project, service, region, os, calls, r) ==
    IF r.raised # "none" THEN Checked(r.raised, FALSE, <<>>, calls \o r.calls)
    ELSE IF r.code # 0
    THEN Checked("none", FALSE, <<"Failed to get Cloud Run service details: ">>,
                 calls \o r.calls)
    ELSE RevisionsChecked(calls \o r.calls,
                          RunCommand(RevisionsCmd(project, service, region), TRUE, os[3]))

\* the first check: the version of gcloud
VersionChecked(project, service, region, os, r) ==
    IF r.raised # "none" THEN Checked(r.raised, FALSE, <<>>, r.calls)
    ELSE IF r.code # 0
    THEN Checked("none", FALSE, <<"Failed to get gcloud version: ">>, r.calls)
    ELSE ServiceChecked(project, service, region, os, r.calls,
                        RunCommand(DescribeServiceCmd(project, service, region, <<"json">>),
                                   TRUE, os[2]))

\* ssh_to_cloud_run(project, service_name, region) up to its menu, when its three
\* commands do os[1], os[2], os[3]
SshToCloudRun(project, service, region, os) ==
    VersionChecked(project, service, region, os, RunCommand(VersionCmd, TRUE, os[1]))

ViewCloudRunDetails(project, service, region, o) ==
    LET r == RunCommand(DescribeServiceCmd(project, service, region, <<"json">>), TRUE, o)
    IN  Done(r.raised,
             IF r.code # 0 THEN <<"Failed to get Cloud Run service details: ">>
             ELSE IF JsonLoads(r.stdout).ok THEN <<"details">>
             ELSE <<"Failed to parse Cloud Run service details.">>,
             r.calls)

\* the loop over the log entries does not raise: every entry has .get, and so has
\* its "jsonPayload"
LogsPrintable(d) ==
    /\ d.ok
    /\ Iterate(d.val).ok
    /\ \A i \in 1..Len(Iterate(d.val).items) :
           GetPath(Iterate(d.val).items[i], << <<"jsonPayload">>, <<"message">> >>,
                   JStr(<<"No message">>)).ok

ViewCloudRunLogs(project, service, o) ==
    LET r == RunCommand(<< <<"gcloud">>, <<"logging">>, <<"read">>,
                           <<"resource.type=cloud_run_revision AND resource.labels.service_name=">>
                             \o service,
                           <<"--project=">> \o project, <<"--limit=100">>,
                           <<"--format=json">> >>, TRUE, o)
    IN  Done(r.raised,
             IF r.code # 0 THEN <<"Failed to get Cloud Run logs: ">>
             ELSE IF LogsPrintable(JsonLoads(r.stdout)) THEN <<"logs">>
             ELSE <<"Failed to parse Cloud Run logs: ">>,
             r.calls)

(***************************************************************************)
(* Cloud Run: the three connection methods.                                *)
(***************************************************************************)
try_direct_ssh(project, service, region, debug, o) ==
    LET r == SubprocessRun(<< <<"gcloud">>, <<"run">>, <<"services">>, <<"ssh">>, service,
                              <<"--project">>, project, <<"--region">>, region >>
                             \o (IF debug THEN << <<"--verbosity=debug">> >> ELSE <<>>),
                           debug, o)
    IN  CASE r.raised = "KeyboardInterrupt" -> Done(r.raised, <<>>, r.calls)
          [] r.raised = "Exception" ->
               Done("none", <<"Error connecting to Cloud Run instance: ">>, r.calls)
          [] OTHER ->
               Done("none",
                    IF debug /\ r.code # 0 THEN <<"[DEBUG] SSH command failed with code ">>
                    ELSE <<>>,
                    r.calls)

\* [r for r in revisions if <first condition>.get("status") == "True"]
ActiveRevisions(items) ==
    SelectSeq(items, LAMBDA r : ConditionStatus(r, JNull).val = JStr(<<"True">>))

\* revision["metadata"]["name"] raises nothing
HasRevisionName(revision) ==
    /\ revision.k = "obj"
    /\ HasKey(revision.m, <<"metadata">>)
    /\ DictGet(revision.m, <<"metadata">>, JNull).k = "obj"
    /\ HasKey(DictGet(revision.m, <<"metadata">>, JNull).m, <<"name">>)

ProxyCmd(project, service, region) ==
    << <<"gcloud">>, <<"beta">>, <<"run">>, <<"services">>, <<"proxy">>, service,
       <<"--project">>, project, <<"--region">>, region, <<"--port">>, <<"8080">> >>

\* use_exec_method from "Start proxy connection?" on
ExecProxy(project, service, region, calls, confirm, o) ==
    LET r == SubprocessRun(ProxyCmd(project, service, region), FALSE, o)
    IN  CASE Lower(confirm) # <<"y">> -> Done("none", <<>>, calls)
          [] Lower(confirm) = <<"y">> /\ r.raised = "KeyboardInterrupt" ->
               Done("none", <<"Proxy connection terminated.">>, calls \o r.calls)
          [] Lower(confirm) = <<"y">> /\ r.raised = "Exception" ->
               Done("none", <<"Error using exec method: ">>, calls \o r.calls)
          [] OTHER -> Done("none", <<>>, calls \o r.calls)

\* use_exec_method with the revisions parsed (to walk over as it)
ExecRevisions(project, service, region, calls, confirm, o, revisions, it) ==
    IF Falsy(revisions)
    THEN Done("none", <<"No revisions found for this service.">>, calls)
    ELSE IF ~it.ok \/ \E i \in 1..Len(it.items) : ~ConditionStatus(it.items[i], JNull).ok
    THEN Done("none", <<"Error using exec method: ">>, calls)
    ELSE IF ActiveRevisions(it.items) = <<>>
    THEN Done("none", <<"No active revisions found. The service might not be running.">>,
              calls)
    ELSE IF ~HasRevisionName(ActiveRevisions(it.items)[1])
    THEN Done("none", <<"Error using exec method: ">>, calls)
    ELSE ExecProxy(project, service, region, calls, confirm, o)

ExecParsed(project, service, region, calls, confirm, o, d) ==
    IF ~d.ok THEN Done("none", <<"Error using exec method: ">>, calls)
    ELSE ExecRevisions(project, service, region, calls, confirm, o, d.val, Iterate(d.val))

ExecListed(project, service, region, confirm, o, r) ==
    IF r.raised # "none" THEN Done(r.raised, <<>>, r.calls)
    ELSE IF r.code # 0 \/ r.stdout = EmptyText
    THEN Done("none", <<"Failed to get revisions: ">>, r.calls)
    ELSE ExecParsed(project, service, region, r.calls, confirm, o, JsonLoads(r.stdout))

\* use_exec_method(project, service_name, region, debug_mode): confirm answers
\* "Start proxy connection?", the listing does os[1] and the proxy os[2]
use_exec_method(project, service, region, confirm, os) ==
    ExecListed(project, service, region, confirm, os[2],
               RunCommand(RevisionsCmd(project, service, region), TRUE, os[1]))

\* the characters of a text that came from a child process
RECURSIVE TextOf(_)
TextOf(ts) ==
    IF ts = <<>> THEN <<>>
    ELSE (IF Head(ts).k = "str" THEN <<"\"">> \o Head(ts).v \o <<"\"">> ELSE Head(ts).v)
            \o TextOf(Tail(ts))

TokenCmd(url) ==
    << <<"gcloud">>, <<"auth">>, <<"print-identity-token">>, <<"--audiences">>, url >>

\* what use_debug_container came to before its menu: menu = TRUE, the options are
\* shown for the service at url with the token
Debug(raised, menu, ms, calls, url, token) ==
    [raised |-> raised, menu |-> menu, msgs |-> ms, calls |-> calls, url |-> url,
     token |-> token]

\* the token request without "if code != 0: return": the options are shown
\* whatever the exit code was
DebugToken_IgnoresCode(url, calls, r) ==
    IF r.raised # "none" THEN Debug(r.raised, FALSE, <<>>, calls \o r.calls, JNull, <<>>)
    ELSE Debug("none", TRUE, <<"Debug container options:">>, calls \o r.calls, url,
               Strip(TextOf(r.stdout)))

DebugToken(url, calls, r) ==
    IF r.raised # "none" THEN Debug(r.raised, FALSE, <<>>, calls \o r.calls, JNull, <<>>)
    ELSE IF r.code # 0
    THEN Debug("none", FALSE, <<"Failed to get authentication token: ">>, calls \o r.calls,
               JNull, <<>>)
    ELSE Debug("none", TRUE, <<"Debug container options:">>, calls \o r.calls, url,
               Strip(TextOf(r.stdout)))

\* use_debug_container with url_data.get("status", {}).get("url") looked up
DebugUrl(calls, o, url) ==
    IF ~url.ok
    THEN Debug("none", FALSE, <<"Error using debug container: ">>, calls, JNull, <<>>)
    ELSE IF Falsy(url.val)
    THEN Debug("none", FALSE, <<"Could not get service URL.">>, calls, JNull, <<>>)
    ELSE DebugToken(url.val, calls, RunCommand(TokenCmd(url.val.s), TRUE, o))

DebugParsed(calls, o, d) ==
    IF ~d.ok
    THEN Debug("none", FALSE, <<"Error using debug container: ">>, calls, JNull, <<>>)
    ELSE DebugUrl(calls, o, GetPath(d.val, << <<"status">>, <<"url">> >>, JNull))

DebugDescribed(o, r) ==
    IF r.raised # "none" THEN Debug(r.raised, FALSE, <<>>, r.calls, JNull, <<>>)
    ELSE IF r.code # 0
    THEN Debug("none", FALSE, <<"Failed to get service URL: ">>, r.calls, JNull, <<>>)
    ELSE DebugParsed(r.calls, o, JsonLoads(r.stdout))

\* use_debug_container(project, service_name, region, debug_mode) up to its menu,
\* when its two commands do os[1] and os[2]
use_debug_container(project, service, region, os) ==
    DebugDescribed(os[2],
                   RunCommand(DescribeServiceCmd(project, service, region,
                                                 <<"json(status.url)">>), TRUE, os[1]))

\* the request of a debug option: choice 8 sends the command typed
DebugRequest(n, typed) ==
    LET Post(command) == [method |-> "POST", endpoint |-> "/_debug/cmd", command |-> command]
    IN  CASE n = 1 -> [method |-> "GET", endpoint |-> "/_debug/env", command |-> <<>>]
          [] n = 2 -> Post(<<"ls -la">>)
          [] n = 3 -> Post(<<"ps aux">>)
          [] n = 4 -> Post(<<"netstat -tuln || ss -tuln">>)
          [] n = 5 -> Post(<<"free -h || cat /proc/meminfo">>)
          [] n = 6 -> Post(<<"df -h">>)
          [] n = 7 -> Post(<<"tail /var/log/syslog 2>/dev/null || journalctl -n 50 2>/dev/null || echo 'No system logs available'">>)
          [] n = 8 -> Post(typed)

CurlCmd(q, token, url) ==
    IF q.method = "GET"
    THEN << <<"curl">>, <<"-s">>, <<"-H">>, <<"Authorization: Bearer ">> \o token,
            url \o <<q.endpoint>> >>
    ELSE << <<"curl">>, <<"-s">>, <<"-H">>, <<"Authorization: Bearer ">> \o token,
            <<"-H">>, <<"Content-Type: application/json">>,
            <<"-d">>, <<"{\"command\": \"">> \o q.command \o <<"\"}">>,
            url \o <<q.endpoint>> >>

\* masked_cmd of the single requests without the replacement
MaskedCmd_Unmasked(cmd) == cmd

\* masked_cmd of the single requests: the element after the first "-H" is
\* replaced when it has "Authorization: Bearer" in it (here: when it starts
\* with it, as every header CurlCmd builds does)
MaskedCmd(cmd) ==
    LET hs == {i \in 1..Len(cmd) : cmd[i] = <<"-H">>}
        auth == (CHOOSE i \in hs : \A j \in hs : i <= j) + 1
    IN  IF hs # {} /\ auth <= Len(cmd) /\ cmd[auth] # <<>>
           /\ Head(cmd[auth]) = "Authorization: Bearer "
        THEN [cmd EXCEPT ![auth] = <<"Authorization: Bearer [TOKEN]">>]
        ELSE cmd

\* masked_cmd of the interactive mode: masked_cmd[3] = "Authorization: Bearer [TOKEN]"
MaskedInteractive(cmd) == [cmd EXCEPT ![4] = <<"Authorization: Bearer [TOKEN]">>]

\* ' '.join(cmd)
RECURSIVE Join(_)
Join(cmd) ==
    IF cmd = <<>> THEN <<>>
    ELSE IF Len(cmd) = 1 THEN Head(cmd)
    ELSE Head(cmd) \o <<" ">> \o Join(Tail(cmd))

\* the code run_command returns when subprocess.run does o; -1 stands for the
\* KeyboardInterrupt that passes through run_command
ReturnCode(o) ==
    IF o.kind = "completed" THEN o.rc ELSE IF o.kind = "exception" THEN 1 ELSE -1

\* the codes of the commands calls, the i-th of which did os[i]
ReturnCodes(calls, os) == [i \in 1..Len(calls) |-> ReturnCode(os[i])]

\* what a step of vm_action_menu takes from its environment: the texts the
\* free-text prompts read (a, b), os.path.exists of the local path, what the
\* command of the action does (o1) and what the command of the next screen does (o2)
Env(a, b, exists, o1, o2) == [a |-> a, b |-> b, exists |-> exists, o1 |-> o1, o2 |-> o2]

\* a chain that stops whatever is not stopped and resets in every status
VmDispatch_Ungated(n, status, project, vm, zone, e) ==
    LET stopped == status \in {JStr(<<"TERMINATED">>), JStr(<<"STOPPED">>)}
        Called(fn, done) == [fn |-> <<fn>>, done |-> done]
        Refused(msg) == [fn |-> <<>>, done |-> Done("none", <<msg>>, <<>>)]
    IN  CASE n = 1 -> Called("ssh_to_vm", SshToVm(project, vm, zone, e.o1))
          [] n = 2 /\ ~stopped -> Called("stop_vm", StopVm(project, vm, zone, e.o1))
          [] n = 2 /\ stopped -> Called("start_vm", StartVm(project, vm, zone, e.o1))
          [] n = 3 -> Called("reset_vm", ResetVm(project, vm, zone, e.o1))
          [] n = 4 -> Called("view_vm_details", ViewVmDetails(project, vm, zone, e.o1))
          [] n = 5 -> Called("view_vm_logs", ViewVmLogs(project, vm, zone, e.o1))
          [] n = 6 -> Called("upload_file_to_vm",
                             UploadFileToVm(project, vm, zone, e.a, e.exists, e.b, e.o1))
          [] n = 7 -> Called("download_file_from_vm",
                             DownloadFileFromVm(project, vm, zone, e.a, e.b, e.o1))
          [] n = 8 -> Called("run_command_on_vm",
                             RunCommandOnVm(project, vm, zone, e.a, e.o1))
          [] OTHER -> Refused("Invalid choice. Please try again.")

\* the if/elif chain of vm_action_menu on the choice n, under the status it showed
VmDispatch(n, status, project, vm, zone, e) ==
    LET running == status = JStr(<<"RUNNING">>)
        stopped == status \in {JStr(<<"TERMINATED">>), JStr(<<"STOPPED">>)}
        Called(fn, done) == [fn |-> <<fn>>, done |-> done]
        Refused(msg) == [fn |-> <<>>, done |-> Done("none", <<msg>>, <<>>)]
    IN  CASE n = 1 -> Called("ssh_to_vm", SshToVm(project, vm, zone, e.o1))
          [] n = 2 /\ running -> Called("stop_vm", StopVm(project, vm, zone, e.o1))
          [] n = 2 /\ stopped -> Called("start_vm", StartVm(project, vm, zone, e.o1))
          [] n = 2 /\ ~running /\ ~stopped ->
               Refused("Cannot perform this action while VM is in ")
          [] n = 3 /\ running -> Called("reset_vm", ResetVm(project, vm, zone, e.o1))
          [] n = 3 /\ ~running -> Refused("Cannot reset VM while it's in ")
          [] n = 4 -> Called("view_vm_details", ViewVmDetails(project, vm, zone, e.o1))
          [] n = 5 -> Called("view_vm_logs", ViewVmLogs(project, vm, zone, e.o1))
          [] n = 6 -> Called("upload_file_to_vm",
                             UploadFileToVm(project, vm, zone, e.a, e.exists, e.b, e.o1))
          [] n = 7 -> Called("download_file_from_vm",
                             DownloadFileFromVm(project, vm, zone, e.a, e.b, e.o1))
          [] n = 8 -> Called("run_command_on_vm",
                             RunCommandOnVm(project, vm, zone, e.a, e.o1))
          [] OTHER -> Refused("Invalid choice. Please try again.")

\* what the listing of display_vms does: two instances, one without zone and
\* machine type that is listed twice, none, no JSON, an element that is no object, a failure, Ctrl-C
VmListOutcomes ==
    { Completed(0, <<P("[")>> \o InstanceText("test-vm", <<"us-central1", "-", "a">>,
                                              "e2-medium", "RUNNING")
                      \o <<P(",")>> \o InstanceText("db-1", <<"europe-west1", "-", "b">>,
                                                     "n1-standard-1", "TERMINATED")
                      \o <<P("]")>>, EmptyText),
      Completed(0, <<P("[")>> \o BareInstanceText("db-1", "STAGING") \o <<P(",")>>
                      \o BareInstanceText("db-1", "STAGING") \o <<P("]")>>, EmptyText),
      Completed(0, <<P("["), P("]")>>, EmptyText),
      Completed(0, <<W("not"), W("json")>>, EmptyText),
      Completed(0, <<P("[")>> \o BareInstanceText("db-1", "RUNNING") \o <<P(","), N("5"), P("]")>>,
                EmptyText),
      Completed(1, EmptyText, <<W("error"), W("message")>>),
      Interrupted }

\* what the status query of vm_action_menu does
StatusOutcomes ==
    { Completed(0, <<P("{"), S("status"), P(":"), S("RUNNING"), P("}")>>, EmptyText),
      Completed(0, <<P("{"), S("status"), P(":"), S("TERMINATED"), P("}")>>, EmptyText),
      Completed(0, <<P("{"), S("status"), P(":"), S("STOPPED"), P("}")>>, EmptyText),
      \* no status in the answer: "UNKNOWN"
      Completed(0, <<P("{"), P("}")>>, EmptyText),
      Completed(1, EmptyText, <<W("error"), W("message")>>),
      Interrupted }

\* what the command of an action does
ActionOutcomes ==
    { Completed(0, <<P("{"), P("}")>>, EmptyText),
      Completed(0, <<W("not"), W("json")>>, EmptyText),
      Completed(1, EmptyText, <<W("error"), W("message")>>),
      Raises(<<W("boom")>>),
      Interrupted }

\* what a step of vm_action_menu that reads s can take from its environment
VmActionEnvs(s) ==
    LET c == ParseInt(s)
    IN  CASE ~c.ok \/ c.val \notin 0..8 -> {Env(<<>>, <<>>, FALSE, NoOutcome, NoOutcome)}
          [] c.ok /\ c.val = 0 ->
               {Env(<<>>, <<>>, FALSE, NoOutcome, o2) : o2 \in VmListOutcomes}
          [] c.ok /\ c.val = 1 ->
               {Env(<<>>, <<>>, FALSE, o1, o2) : o1 \in ActionOutcomes, o2 \in StatusOutcomes}
          [] c.ok /\ c.val \in 2..5 ->
               {Env(<<>>, <<>>, FALSE, o1, NoOutcome) : o1 \in ActionOutcomes}
          [] c.ok /\ c.val = 6 ->
               {Env(a, b, TRUE, o1, NoOutcome) : a \in PathInputs \ {<<>>}, b \in PathInputs,
                                                o1 \in ActionOutcomes}
                 \cup {Env(a, <<>>, FALSE, NoOutcome, NoOutcome) : a \in PathInputs}
          [] c.ok /\ c.val = 7 ->
               {Env(a, b, FALSE, o1, NoOutcome) : a \in PathInputs, b \in PathInputs,
                                                 o1 \in ActionOutcomes}
          [] c.ok /\ c.val = 8 ->
               {Env(a, <<>>, FALSE, o1, NoOutcome) : a \in CommandInputs,
                                                    o1 \in ActionOutcomes}

\* the text of a service as "gcloud run services list" prints it
ServiceText(name, region, url, ready) ==
    <<P("{"), S("metadata"), P(":"), P("{"), S("name"), P(":"), S(name), P(","),
      S("labels"), P(":"), P("{"), S("cloud.googleapis.com/location"), P(":"), S(region),
      P("}"), P("}"), P(","),
      S("status"), P(":"), P("{"), S("url"), P(":"), S(url), P(","),
      S("conditions"), P(":"), P("["), P("{"), S("status"), P(":"), S(ready), P("}"),
      P("]"), P("}"), P("}")>>

\* the text of a revision as "gcloud run revisions list" prints it
RevisionText(name, ready) ==
    <<P("{"), S("metadata"), P(":"), P("{"), S("name"), P(":"), S(name), P("}"), P(","),
      S("status"), P(":"), P("{"), S("conditions"), P(":"), P("["), P("{"), S("status"),
      P(":"), S(ready), P("}"), P("]"), P("}"), P("}")>>

Failed == Completed(1, EmptyText, <<W("error"), W("message")>>)

\* what the listing of the services does: two services, one without anything, none,
\* no JSON, an element that is no object, a failure, Ctrl-C
ServiceListOutcomes ==
    { Completed(0, <<P("[")>> \o ServiceText("api", "us-central1", "https://api.run.app",
                                              "True")
                      \o <<P(",")>> \o ServiceText("worker", "europe-west1",
                                                     "https://worker.run.app", "False")
                      \o <<P("]")>>, EmptyText),
      Completed(0, <<P("["), P("{"), P("}"), P("]")>>, EmptyText),
      Completed(0, <<P("["), P("]")>>, EmptyText),
      Completed(0, <<W("not"), W("json")>>, EmptyText),
      Completed(0, <<P("["), N("5"), P("]")>>, EmptyText),
      Failed,
      Interrupted }

\* what a check of ssh_to_cloud_run does
CheckOutcomes == { Completed(0, <<P("{"), P("}")>>, EmptyText), Failed, Interrupted }

\* what the listing of the revisions does in use_exec_method
RevisionOutcomes ==
    { Completed(0, <<P("[")>> \o RevisionText("api-00002", "True") \o <<P("]")>>, EmptyText),
      Completed(0, <<P("[")>> \o RevisionText("api-00001", "False") \o <<P("]")>>, EmptyText),
      Completed(0, <<P("["), P("{"), S("status"), P(":"), P("{"), S("conditions"), P(":"),
                     P("["), P("{"), S("status"), P(":"), S("True"), P("}"), P("]"), P("}"),
                     P("}"), P("]")>>, EmptyText),
      Completed(0, <<P("["), P("]")>>, EmptyText),
      Completed(0, EmptyText, EmptyText),
      Completed(0, <<W("not"), W("json")>>, EmptyText),
      Failed,
      Interrupted }

\* what the proxy, the ssh and the curl commands do
RunOutcomes ==
    { Completed(0, <<P("{"), P("}")>>, EmptyText), Failed, Raises(<<W("boom")>>),
      Interrupted }

\* what "gcloud run services describe --format json(status.url)" does
UrlOutcomes ==
    { Completed(0, <<P("{"), S("status"), P(":"), P("{"), S("url"), P(":"),
                     S("https://api.run.app"), P("}"), P("}")>>, EmptyText),
      Completed(0, <<P("{"), P("}")>>, EmptyText),
      Completed(0, <<P("["), P("]")>>, EmptyText),
      Completed(0, <<W("not"), W("json")>>, EmptyText),
      Failed,
      Interrupted }

\* what "gcloud auth print-identity-token" does
TokenOutcomes ==
    { Completed(0, <<W("eyJhbGciOi"), W("\n")>>, EmptyText), Failed, Interrupted }

\* what a step of the Cloud Run menus takes from its environment: the text a
\* free-text prompt reads (a) and what its commands do, in their order (os)
CrEnv(a, os) == [a |-> a, os |-> os]

NoCrEnv == CrEnv(<<>>, <<>>)

\* what a step of cloud_run_action_menu that reads s can take
CrActionEnvs(s) ==
    LET c == ParseInt(s)
    IN  CASE ~c.ok \/ c.val \notin 0..3 -> {NoCrEnv}
          [] c.ok /\ c.val = 0 -> {CrEnv(<<>>, <<o>>) : o \in ServiceListOutcomes}
          [] c.ok /\ c.val = 1 ->
               {CrEnv(a, <<o1, o2, o3>>) : a \in ConfirmInputs, o1 \in CheckOutcomes,
                                          o2 \in CheckOutcomes, o3 \in CheckOutcomes}
          [] c.ok /\ c.val \in 2..3 -> {CrEnv(<<>>, <<o>>) : o \in ActionOutcomes}

\* what a step of the menu of ssh_to_cloud_run that reads s can take
CrConnectEnvs(s) ==
    LET c == ParseInt(s)
    IN  CASE ~c.ok \/ c.val \notin 1..3 -> {NoCrEnv}
          [] c.ok /\ c.val = 1 -> {CrEnv(<<>>, <<o>>) : o \in RunOutcomes}
          [] c.ok /\ c.val = 2 ->
               {CrEnv(a, <<o1, o2>>) : a \in ConfirmInputs, o1 \in RevisionOutcomes,
                                      o2 \in RunOutcomes}
          [] c.ok /\ c.val = 3 ->
               {CrEnv(<<>>, <<o1, o2>>) : o1 \in UrlOutcomes, o2 \in TokenOutcomes}

\* what a step of the menu of use_debug_container that reads s can take
CrDebugEnvs(s) ==
    LET c == ParseInt(s)
    IN  CASE ~c.ok \/ c.val \notin 1..8 -> {NoCrEnv}
          [] c.ok /\ c.val \in 1..7 -> {CrEnv(<<>>, <<o>>) : o \in RunOutcomes}
          [] c.ok /\ c.val = 8 ->
               {CrEnv(a, <<o>>) : a \in CommandInputs, o \in RunOutcomes}

\* the selections manage_vms and manage_cloud_run hold
selVars == <<curProject, vmVars, crVars>>

\* display_projects came to d: its prompt, or without a project "Press Enter" and
\* the main menu
ProjectsShown(sub, s, ms, disp, calls, d) ==
    /\ IF d.raised # "none" THEN Exit(d.raised, s, ms \o d.msgs, disp, calls)
       ELSE IF d.prompt THEN Step(sub, s, ms \o d.msgs, disp, calls)
       ELSE Pause("main_menu", s, ms \o d.msgs, disp, calls)
    /\ cfgFile' = d.file

\* manage_vms (sub = "vm_projects") and manage_cloud_run (sub = "cr_projects") call
\* display_projects
EnterProjects(sub, s, ms, disp, calls) ==
    ProjectsShown(sub, s, ms, disp, calls, DisplayProjects(cfgFile))

\* display_main_menu reads s, and main() acts on the choice
MainMenuChoice(s) ==
    LET c == ParseInt(s)
    IN  /\ pc = "main_menu"
        /\ CASE ~c.ok ->
                   /\ Step("main_menu", s, <<"Please enter a number.">>, <<>>, <<>>)
                   /\ UNCHANGED cfgFile
              [] c.ok /\ c.val \notin 0..3 ->
                   /\ Step("main_menu", s, <<"Invalid choice. Please try again.">>, <<>>, <<>>)
                   /\ UNCHANGED cfgFile
              [] c.ok /\ c.val = 0 ->
                   /\ Exit("none", s, <<>>, <<>>, <<>>)
                   /\ UNCHANGED cfgFile
              [] c.ok /\ c.val = 1 -> EnterProjects("vm_projects", s, <<>>, <<"manage_vms">>, <<>>)
              [] c.ok /\ c.val = 2 ->
                   EnterProjects("cr_projects", s, <<>>, <<"manage_cloud_run">>, <<>>)
              [] c.ok /\ c.val = 3 ->
                   /\ Step("proj_menu", s, <<>>, <<"manage_projects">>, <<>>)
                   /\ UNCHANGED cfgFile
        /\ UNCHANGED <<cfgMem, selVars, nonMenuVars, answers>>
        /\ codes' = <<>>
        /\ debugLine' = <<>>

\* a display_vms whose failure leads to the main menu
VmsShown_ToMainMenu(project, s, ms, disp, calls, v) ==
    /\ IF v.raised # "none" THEN Exit(v.raised, s, ms \o v.msgs, disp, calls \o v.calls)
       ELSE IF v.prompt THEN Step("vm_select", s, ms \o v.msgs, disp, calls \o v.calls)
       ELSE Pause("main_menu", s, ms \o v.msgs, disp, calls \o v.calls)
    /\ cfgFile' = v.file
    /\ curProject' = IF v.raised = "none" /\ v.prompt THEN project ELSE <<>>
    /\ vmList' = v.rows
    /\ curVm' = JNull
    /\ vmStatus' = JNull

\* display_vms came to v: the step ends at the VM selection, or, when (None, 0) is
\* returned without asking, at its "Press Enter"
VmsShown(project, s, ms, disp, calls, v) ==
    /\ IF v.raised # "none" THEN Exit(v.raised, s, ms \o v.msgs, disp, calls \o v.calls)
       ELSE IF v.prompt THEN Step("vm_select", s, ms \o v.msgs, disp, calls \o v.calls)
       ELSE Pause("vm_projects", s, ms \o v.msgs, disp, calls \o v.calls)
    /\ cfgFile' = v.file
    /\ curProject' = IF v.raised = "none" /\ v.prompt THEN project ELSE <<>>
    /\ vmList' = v.rows
    /\ curVm' = JNull
    /\ vmStatus' = JNull

\* manage_vms shows the VMs of project
ListVms(project, s, ms, disp, calls, o) ==
    VmsShown(project, s, ms, disp, calls, DisplayVms(project, cfgFile, o))

\* the project selection of manage_vms reads s; o is what the listing does
SelectVmProject(s, o) ==
    LET c == ParseInt(s)
        projects == GetProjectList(cfgFile).list
    IN  /\ pc = "vm_projects"
        /\ CASE ~c.ok ->
                   /\ Step("vm_projects", s, <<"Please enter a number.">>, <<>>, <<>>)
                   /\ UNCHANGED <<cfgFile, curProject, vmVars>>
              [] c.ok /\ c.val \notin 0..Len(projects) ->
                   /\ Step("vm_projects", s, <<"Invalid choice. Please try again.">>, <<>>, <<>>)
                   /\ UNCHANGED <<cfgFile, curProject, vmVars>>
              [] c.ok /\ c.val = 0 ->
                   /\ Step("main_menu", s, <<>>, <<>>, <<>>)
                   /\ UNCHANGED <<cfgFile, curProject, vmVars>>
              [] c.ok /\ c.val \in 1..Len(projects) ->
                   ListVms(projects[c.val], s, <<>>, <<>>, <<>>, o)
        /\ UNCHANGED <<cfgMem, crVars, nonMenuVars, answers>>
        /\ codes' = <<>>
        /\ debugLine' = <<>>

\* row["name"], row["zone"] of a row of the table
NameText(row) == DictGet(row.m, <<"name">>, JNull).s

ZoneText(row) == DictGet(row.m, <<"zone">>, JNull).s

\* vm_action_menu shows its menu under the status g it queried
ShowVmActions(s, ms, disp, calls, g) ==
    /\ StepOrExit(g.raised, "vm_action", s, ms, disp, calls \o g.calls)
    /\ vmStatus' = g.val

\* the VM selection reads s; o is what the status query of vm_action_menu does
SelectVm(s, o) ==
    LET c == ParseInt(s)
        vm == vmList[c.val]
    IN  /\ pc = "vm_select"
        /\ CASE ~c.ok ->
                   /\ Step("vm_select", s, <<"Please enter a number.">>, <<>>, <<>>)
                   /\ UNCHANGED <<cfgFile, curProject, vmVars>>
              [] c.ok /\ c.val \notin 0..Len(vmList) ->
                   /\ Step("vm_select", s, <<"Invalid choice. Please try again.">>, <<>>, <<>>)
                   /\ UNCHANGED <<cfgFile, curProject, vmVars>>
              \* (None, 0): manage_vms goes back to display_projects
              [] c.ok /\ c.val = 0 ->
                   /\ EnterProjects("vm_projects", s, <<>>, <<>>, <<>>)
                   /\ curProject' = <<>>
                   /\ vmList' = <<>>
                   /\ UNCHANGED <<curVm, vmStatus>>
              [] c.ok /\ c.val \in 1..Len(vmList) ->
                   /\ ShowVmActions(s, <<>>, <<>>, <<>>,
                                    GetVmStatus(curProject, NameText(vm), ZoneText(vm), o))
                   /\ curVm' = vm
                   /\ UNCHANGED <<cfgFile, curProject, vmList>>
        /\ UNCHANGED <<cfgMem, crVars, nonMenuVars, answers>>
        /\ codes' = <<>>
        /\ debugLine' = <<>>

\* the action d of vm_action_menu is over: every action but ssh_to_vm ends at a
\* "Press Enter", after ssh_to_vm the menu is shown again at once
VmActionDone(s, n, d, o) ==
    IF n = 1 /\ d.done.raised = "none"
    THEN /\ ShowVmActions(s, d.done.msgs, d.fn, d.done.calls,
                          GetVmStatus(curProject, NameText(curVm), ZoneText(curVm), o))
         /\ UNCHANGED <<cfgFile, curProject, vmList, curVm>>
    ELSE /\ PauseOrExit(d.done.raised, "vm_action", s, d.done.msgs, d.fn, d.done.calls)
         /\ UNCHANGED <<cfgFile, curProject, vmVars>>

\* vm_action_menu reads s and runs the action chosen
VmActionChoice(s, e) ==
    LET c == ParseInt(s)
    IN  /\ pc = "vm_action"
        /\ CASE ~c.ok ->
                   /\ Pause("vm_action", s, <<"Please enter a number.">>, <<>>, <<>>)
                   /\ UNCHANGED <<cfgFile, curProject, vmVars>>
              \* return 0: manage_vms lists the VMs of the project again
              [] c.ok /\ c.val = 0 -> ListVms(curProject, s, <<>>, <<>>, <<>>, e.o2)
              [] c.ok /\ c.val # 0 ->
                   VmActionDone(s, c.val,
                                VmDispatch(c.val, vmStatus, curProject, NameText(curVm),
                                           ZoneText(curVm), e),
                                e.o2)
        /\ UNCHANGED <<cfgMem, crVars, nonMenuVars, answers>>
        /\ codes' = <<>>
        /\ debugLine' = <<>>

\* a "Press Enter" prompt reads a line, and the menu after it is shown; o is what
\* the status query of vm_action_menu does
AfterEnter(o) ==
    /\ pc = "press_enter"
    /\ CASE resume \in {"vm_projects", "cr_projects"} ->
               /\ EnterProjects(resume, <<>>, <<>>, <<>>, <<>>)
               /\ UNCHANGED vmStatus
          [] resume = "vm_action" ->
               /\ ShowVmActions(<<>>, <<>>, <<>>, <<>>,
                                GetVmStatus(curProject, NameText(curVm), ZoneText(curVm), o))
               /\ UNCHANGED cfgFile
          [] OTHER ->
               /\ Step(resume, <<>>, <<>>, <<>>, <<>>)
               /\ UNCHANGED <<cfgFile, vmStatus>>
    /\ answers' = <<>>
    /\ codes' = <<>>
    /\ debugLine' = <<>>
    /\ UNCHANGED <<cfgMem, curProject, vmList, curVm, crVars, nonMenuVars>>

PressEnter ==
    \E o \in (IF resume = "vm_action" THEN StatusOutcomes ELSE {NoOutcome}) : AfterEnter(o)

\* what ssh_to_cloud_run and the methods under it hold: nothing outside them
SshLocalsGone ==
    /\ debugMode' = FALSE
    /\ serviceUrl' = JNull
    /\ authToken' = <<>>

\* display_cloud_run_services came to v: the step ends at the service selection,
\* or, when (None, 0) is returned without asking, at its "Press Enter"
ServicesShown(project, s, ms, disp, calls, v) ==
    /\ IF v.raised # "none" THEN Exit(v.raised, s, ms \o v.msgs, disp, calls \o v.calls)
       ELSE IF v.prompt THEN Step("cr_select", s, ms \o v.msgs, disp, calls \o v.calls)
       ELSE Pause("cr_projects", s, ms \o v.msgs, disp, calls \o v.calls)
    /\ curProject' = IF v.raised = "none" /\ v.prompt THEN project ELSE <<>>
    /\ svcList' = v.rows
    /\ curService' = JNull
    /\ SshLocalsGone
    /\ UNCHANGED <<cfgFile, vmVars>>

\* manage_cloud_run shows the services of project
ListServices(project, s, ms, disp, calls, o) ==
    ServicesShown(project, s, ms, disp, calls, DisplayCloudRunServices(project, o))

\* the project selection of manage_cloud_run reads s; o is what the listing does
SelectCrProject(s, o) ==
    LET c == ParseInt(s)
        projects == GetProjectList(cfgFile).list
    IN  /\ pc = "cr_projects"
        /\ CASE ~c.ok ->
                   /\ Step("cr_projects", s, <<"Please enter a number.">>, <<>>, <<>>)
                   /\ UNCHANGED <<cfgFile, selVars>>
              [] c.ok /\ c.val \notin 0..Len(projects) ->
                   /\ Step("cr_projects", s, <<"Invalid choice. Please try again.">>, <<>>, <<>>)
                   /\ UNCHANGED <<cfgFile, selVars>>
              [] c.ok /\ c.val = 0 ->
                   /\ Step("main_menu", s, <<>>, <<>>, <<>>)
                   /\ UNCHANGED <<cfgFile, selVars>>
              [] c.ok /\ c.val \in 1..Len(projects) ->
                   ListServices(projects[c.val], s, <<>>, <<>>, <<>>, o)
        /\ UNCHANGED <<cfgMem, nonMenuVars, answers>>
        /\ codes' = <<>>
        /\ debugLine' = <<>>

\* the service selection reads s
SelectService(s) ==
    LET c == ParseInt(s)
    IN  /\ pc = "cr_select"
        /\ CASE ~c.ok ->
                   /\ Step("cr_select", s, <<"Please enter a number.">>, <<>>, <<>>)
                   /\ UNCHANGED <<cfgFile, selVars>>
              [] c.ok /\ c.val \notin 0..Len(svcList) ->
                   /\ Step("cr_select", s, <<"Invalid choice. Please try again.">>, <<>>, <<>>)
                   /\ UNCHANGED <<cfgFile, selVars>>
              \* (None, 0): manage_cloud_run goes back to display_projects
              [] c.ok /\ c.val = 0 ->
                   /\ EnterProjects("cr_projects", s, <<>>, <<>>, <<>>)
                   /\ curProject' = <<>>
                   /\ svcList' = <<>>
                   /\ UNCHANGED <<vmVars, curService, debugMode, serviceUrl, authToken>>
              [] c.ok /\ c.val \in 1..Len(svcList) ->
                   /\ Step("cr_action", s, <<>>, <<>>, <<>>)
                   /\ curService' = svcList[c.val]
                   /\ UNCHANGED <<cfgFile, curProject, vmVars, svcList, debugMode, serviceUrl,
                                  authToken>>
        /\ UNCHANGED <<cfgMem, nonMenuVars, answers>>
        /\ codes' = <<>>
        /\ debugLine' = <<>>

\* service_name and region of cloud_run_action_menu
SvcName == ServiceName(curService).val.s

SvcRegion == ServiceRegion(curService).val.s

\* ssh_to_cloud_run came to k after "Enable debug mode?" read a
SshChecked(s, a, k) ==
    /\ IF k.raised # "none" THEN Exit(k.raised, s, k.msgs, <<"ssh_to_cloud_run">>, k.calls)
       ELSE IF k.menu THEN Step("cr_connect", s, k.msgs, <<"ssh_to_cloud_run">>, k.calls)
       ELSE Pause("cr_action", s, k.msgs, <<"ssh_to_cloud_run">>, k.calls)
    /\ debugMode' = (k.raised = "none" /\ k.menu /\ Lower(a) = <<"y">>)
    /\ UNCHANGED <<cfgFile, curProject, vmVars, svcList, curService, serviceUrl, authToken>>

\* the action d of cloud_run_action_menu and of ssh_to_cloud_run is over, at its
\* "Press Enter"
CrActionDone(s, fn, d) ==
    /\ PauseOrExit(d.raised, "cr_action", s, d.msgs, <<fn>>, d.calls)
    /\ SshLocalsGone
    /\ UNCHANGED <<cfgFile, curProject, vmVars, svcList, curService>>

\* cloud_run_action_menu reads s and runs the action chosen
CrActionChoice(s, e) ==
    LET c == ParseInt(s)
    IN  /\ pc = "cr_action"
        /\ CASE ~c.ok ->
                   /\ Pause("cr_action", s, <<"Please enter a number.">>, <<>>, <<>>)
                   /\ UNCHANGED <<cfgFile, selVars>>
              \* return 0: manage_cloud_run lists the services of the project again
              [] c.ok /\ c.val = 0 -> ListServices(curProject, s, <<>>, <<>>, <<>>, e.os[1])
              [] c.ok /\ c.val = 1 ->
                   SshChecked(s, e.a, SshToCloudRun(curProject, SvcName, SvcRegion, e.os))
              [] c.ok /\ c.val = 2 ->
                   CrActionDone(s, "view_cloud_run_details",
                                ViewCloudRunDetails(curProject, SvcName, SvcRegion, e.os[1]))
              [] c.ok /\ c.val = 3 ->
                   CrActionDone(s, "view_cloud_run_logs",
                                ViewCloudRunLogs(curProject, SvcName, e.os[1]))
              [] OTHER ->
                   /\ Pause("cr_action", s, <<"Invalid choice. Please try again.">>, <<>>, <<>>)
                   /\ UNCHANGED <<cfgFile, selVars>>
        /\ UNCHANGED <<cfgMem, nonMenuVars, answers>>
        /\ codes' = IF c.ok /\ c.val = 1 THEN ReturnCodes(procCalls', e.os) ELSE <<>>
        /\ debugLine' = <<>>

\* use_debug_container came to k
DebugShown(s, k) ==
    /\ IF k.raised # "none" THEN Exit(k.raised, s, k.msgs, <<"use_debug_container">>, k.calls)
       ELSE IF k.menu THEN Step("cr_debug", s, k.msgs, <<"use_debug_container">>, k.calls)
       ELSE Pause("cr_action", s, k.msgs, <<"use_debug_container">>, k.calls)
    /\ debugMode' = (k.raised = "none" /\ k.menu /\ debugMode)
    /\ serviceUrl' = k.url
    /\ authToken' = k.token
    /\ UNCHANGED <<cfgFile, curProject, vmVars, svcList, curService>>

\* the menu of ssh_to_cloud_run reads s and runs the method chosen; whatever was
\* read, ssh_to_cloud_run goes on to its "Press Enter" and returns
CrConnectChoice(s, e) ==
    LET c == ParseInt(s)
    IN  /\ pc = "cr_connect"
        /\ CASE ~c.ok ->
                   /\ Pause("cr_action", s, <<"Please enter a number.">>, <<>>, <<>>)
                   /\ SshLocalsGone
                   /\ UNCHANGED <<cfgFile, curProject, vmVars, svcList, curService>>
              [] c.ok /\ c.val = 1 ->
                   CrActionDone(s, "try_direct_ssh",
                                try_direct_ssh(curProject, SvcName, SvcRegion, debugMode,
                                               e.os[1]))
              [] c.ok /\ c.val = 2 ->
                   CrActionDone(s, "use_exec_method",
                                use_exec_method(curProject, SvcName, SvcRegion, e.a, e.os))
              [] c.ok /\ c.val = 3 ->
                   DebugShown(s, use_debug_container(curProject, SvcName, SvcRegion, e.os))
              [] OTHER ->
                   /\ Pause("cr_action", s, <<"Invalid choice. Please try again.">>, <<>>, <<>>)
                   /\ SshLocalsGone
                   /\ UNCHANGED <<cfgFile, curProject, vmVars, svcList, curService>>
        /\ UNCHANGED <<cfgMem, nonMenuVars, answers>>
        /\ codes' = IF c.ok /\ c.val = 3 THEN ReturnCodes(procCalls', e.os) ELSE <<>>
        /\ debugLine' = <<>>

\* subprocess.run of a curl command in use_debug_container did r: an Exception is
\* caught by the handler around the menu
CurlDone(r) ==
    CASE r.raised = "KeyboardInterrupt" -> Done(r.raised, <<>>, r.calls)
      [] r.raised = "Exception" -> Done("none", <<"Error in debug container method: ">>, r.calls)
      [] OTHER -> Done("none", <<"Executing command: ">>, r.calls)

\* use_debug_container returns, and ssh_to_cloud_run waits at its "Press Enter"
DebugReturns(s, d) ==
    /\ PauseOrExit(d.raised, "cr_action", s, d.msgs, <<>>, d.calls)
    /\ SshLocalsGone

\* the menu of use_debug_container reads s
CrDebugChoice(s, e) ==
    LET c == ParseInt(s)
    IN  /\ pc = "cr_debug"
        /\ CASE ~c.ok -> DebugReturns(s, Done("none", <<"Please enter a number.">>, <<>>))
              [] c.ok /\ c.val = 0 -> DebugReturns(s, Done("none", <<>>, <<>>))
              [] c.ok /\ c.val \in 1..8 ->
                   DebugReturns(s, CurlDone(SubprocessRun(
                       CurlCmd(DebugRequest(c.val, e.a), authToken, serviceUrl.s),
                       TRUE, e.os[1])))
              [] c.ok /\ c.val = 9 ->
                   /\ Step("cr_interactive", s,
                           <<"Entering interactive mode. Type 'exit' to quit.">>, <<>>, <<>>)
                   /\ UNCHANGED <<debugMode, serviceUrl, authToken>>
              \* no branch of the chain binds method: the UnboundLocalError is caught
              [] OTHER ->
                   DebugReturns(s, Done("none", <<"Error in debug container method: ">>, <<>>))
        /\ UNCHANGED <<cfgVars, curProject, vmVars, svcList, curService, nonMenuVars, answers>>
        /\ codes' = <<>>
        /\ debugLine' = IF debugMode /\ c.ok /\ c.val \in 1..8
                        THEN <<"[DEBUG] Running command: ">>
                               \o Join(MaskedCmd(CurlCmd(DebugRequest(c.val, e.a), authToken,
                                                         serviceUrl.s)))
                        ELSE <<>>

\* the "cloud-run-debug>" prompt reads text; o is what curl does
CrInteractive(text, o) ==
    LET r == SubprocessRun(CurlCmd(DebugRequest(8, text), authToken, serviceUrl.s), TRUE, o)
    IN  /\ pc = "cr_interactive"
        /\ CASE Lower(text) = <<"exit">> -> DebugReturns(text, Done("none", <<>>, <<>>))
              [] Lower(text) # <<"exit">> /\ r.raised = "none" ->
                   /\ Step("cr_interactive", text, <<>>, <<>>, r.calls)
                   /\ UNCHANGED <<debugMode, serviceUrl, authToken>>
              [] OTHER -> DebugReturns(text, CurlDone(r))
        /\ UNCHANGED <<cfgVars, curProject, vmVars, svcList, curService, nonMenuVars, answers>>
        /\ codes' = <<>>
        /\ debugLine' = IF debugMode /\ Lower(text) # <<"exit">>
                        THEN <<"[DEBUG] Running: ">>
                               \o Join(MaskedInteractive(CurlCmd(DebugRequest(8, text), authToken,
                                                                 serviceUrl.s)))
                        ELSE <<>>

\* choice 2 without save_config: the project is added to main()'s dict only
AddProject_NoSave(config, name) ==
    LET ps == IF config.k = "obj" THEN DictGet(config.m, <<"projects">>, JNull) ELSE JNull
    IN  IF name = <<>>
        THEN [raised |-> "none", config |-> config, save |-> FALSE, msgs |-> <<>>]
        ELSE IF config.k # "obj" \/ ~HasKey(config.m, <<"projects">>)
        THEN [raised |-> "KeyError", config |-> config, save |-> FALSE, msgs |-> <<>>]
        ELSE IF ps.k # "obj"
        THEN [raised |-> "TypeError", config |-> config, save |-> FALSE, msgs |-> <<>>]
        ELSE IF HasKey(ps.m, name)
        THEN [raised |-> "none", config |-> config, save |-> FALSE,
              msgs |-> <<"Project already exists.">>]
        ELSE [raised |-> "none", save |-> FALSE, msgs |-> <<"Project added successfully.">>,
              config |-> JObj(DictSet(config.m, <<"projects">>,
                                      JObj(DictSet(ps.m, name, NewProject))))]

\* manage_projects, choice 2 with the name typed: config["projects"][name] =
\* {"vms": []} and save_config
AddProject(config, name) ==
    LET ps == IF config.k = "obj" THEN DictGet(config.m, <<"projects">>, JNull) ELSE JNull
    IN  IF name = <<>>
        THEN [raised |-> "none", config |-> config, save |-> FALSE, msgs |-> <<>>]
        ELSE IF config.k # "obj" \/ ~HasKey(config.m, <<"projects">>)
        THEN [raised |-> "KeyError", config |-> config, save |-> FALSE, msgs |-> <<>>]
        ELSE IF ps.k # "obj"
        THEN [raised |-> "TypeError", config |-> config, save |-> FALSE, msgs |-> <<>>]
        ELSE IF HasKey(ps.m, name)
        THEN [raised |-> "none", config |-> config, save |-> FALSE,
              msgs |-> <<"Project already exists.">>]
        ELSE [raised |-> "none", save |-> TRUE, msgs |-> <<"Project added successfully.">>,
              config |-> JObj(DictSet(config.m, <<"projects">>,
                                      JObj(DictSet(ps.m, name, NewProject))))]

\* manage_projects, choice 3 confirmed: del config["projects"][name] and save_config
RemoveProject(config, name) ==
    LET ps == IF config.k = "obj" THEN DictGet(config.m, <<"projects">>, JNull) ELSE JNull
    IN  IF ps.k # "obj" \/ ~HasKey(ps.m, name)
        THEN [raised |-> "KeyError", config |-> config, save |-> FALSE, msgs |-> <<>>]
        ELSE [raised |-> "none", save |-> TRUE, msgs |-> <<"Project removed successfully.">>,
              config |-> JObj(DictSet(config.m, <<"projects">>, JObj(DictDel(ps.m, name))))]

\* the menu of manage_projects reads s; name is what "Enter project name" reads
ProjectMenuChoice(s, name) ==
    LET c == ParseInt(s)
        g == GetProjectList(cfgFile)
        a == AddProject(cfgMem, name)
    IN  /\ pc = "proj_menu"
        /\ CASE ~c.ok ->
                   /\ Pause("proj_menu", s, <<"Please enter a number.">>, <<>>, <<>>)
                   /\ UNCHANGED cfgVars
              [] c.ok /\ c.val \notin 0..3 ->
                   /\ Pause("proj_menu", s, <<"Invalid choice. Please try again.">>, <<>>, <<>>)
                   /\ UNCHANGED cfgVars
              [] c.ok /\ c.val = 0 ->
                   /\ Step("main_menu", s, <<>>, <<>>, <<>>)
                   /\ UNCHANGED cfgVars
              [] c.ok /\ c.val = 1 ->
                   /\ PauseOrExit(IF g.ok THEN "none" ELSE "AttributeError", "proj_menu", s,
                                  g.msgs \o (IF g.list = <<>> THEN <<"No projects configured.">>
                                             ELSE <<"Configured projects:">>),
                                  <<>>, <<>>)
                   /\ cfgFile' = g.file
                   /\ UNCHANGED cfgMem
              [] c.ok /\ c.val = 2 ->
                   /\ PauseOrExit(a.raised, "proj_menu", s, a.msgs, <<>>, <<>>)
                   /\ cfgMem' = a.config
                   /\ cfgFile' = IF a.save THEN SaveConfig(a.config) ELSE cfgFile
              [] c.ok /\ c.val = 3 ->
                   /\ IF ~g.ok THEN Exit("AttributeError", s, g.msgs, <<>>, <<>>)
                      ELSE IF g.list = <<>>
                      THEN Pause("proj_menu", s, g.msgs \o <<"No projects to remove.">>,
                                 <<>>, <<>>)
                      ELSE Step("proj_remove", s, g.msgs \o <<"Select project to remove:">>,
                                <<>>, <<>>)
                   /\ cfgFile' = g.file
                   /\ UNCHANGED cfgMem
        /\ answers' = IF c.ok /\ c.val = 2 THEN <<name>> ELSE <<>>
        /\ codes' = <<>>
        /\ debugLine' = <<>>
        /\ UNCHANGED <<selVars, nonMenuVars>>

\* the removal selection with "0 <= remove_choice": 0 selects projects[-1]
ProjectRemoveChoice_ZeroSelects(s, confirm) ==
    LET c == ParseInt(s)
        projects == GetProjectList(cfgFile).list
        r == RemoveProject(cfgMem, projects[IF c.val = 0 THEN Len(projects) ELSE c.val])
    IN  /\ pc = "proj_remove"
        /\ CASE ~c.ok ->
                   /\ Pause("proj_menu", s, <<"Invalid choice.">>, <<>>, <<>>)
                   /\ UNCHANGED cfgVars
              [] c.ok /\ c.val \in 0..Len(projects) /\ Lower(confirm) = <<"y">> ->
                   /\ PauseOrExit(r.raised, "proj_menu", s, r.msgs, <<>>, <<>>)
                   /\ cfgMem' = r.config
                   /\ cfgFile' = IF r.save THEN SaveConfig(r.config) ELSE cfgFile
              [] OTHER ->
                   /\ Pause("proj_menu", s, <<>>, <<>>, <<>>)
                   /\ UNCHANGED cfgVars
        /\ answers' = IF c.ok /\ c.val \in 1..Len(projects) THEN <<confirm>> ELSE <<>>
        /\ codes' = <<>>
        /\ debugLine' = <<>>
        /\ UNCHANGED <<selVars, nonMenuVars>>

\* the removal selection without "if confirm.lower() == 'y'": every answer removes
ProjectRemoveChoice_Unconfirmed(s, confirm) ==
    LET c == ParseInt(s)
        projects == GetProjectList(cfgFile).list
        r == RemoveProject(cfgMem, projects[c.val])
    IN  /\ pc = "proj_remove"
        /\ CASE ~c.ok ->
                   /\ Pause("proj_menu", s, <<"Invalid choice.">>, <<>>, <<>>)
                   /\ UNCHANGED cfgVars
              [] c.ok /\ c.val \in 1..Len(projects) ->
                   /\ PauseOrExit(r.raised, "proj_menu", s, r.msgs, <<>>, <<>>)
                   /\ cfgMem' = r.config
                   /\ cfgFile' = IF r.save THEN SaveConfig(r.config) ELSE cfgFile
              [] OTHER ->
                   /\ Pause("proj_menu", s, <<>>, <<>>, <<>>)
                   /\ UNCHANGED cfgVars
        /\ answers' = IF c.ok /\ c.val \in 1..Len(projects) THEN <<confirm>> ELSE <<>>
        /\ codes' = <<>>
        /\ debugLine' = <<>>
        /\ UNCHANGED <<selVars, nonMenuVars>>

\* "Select project to remove" reads s; confirm is the answer to "Are you sure"
ProjectRemoveChoice(s, confirm) ==
    LET c == ParseInt(s)
        projects == GetProjectList(cfgFile).list
        r == RemoveProject(cfgMem, projects[c.val])
    IN  /\ pc = "proj_remove"
        /\ CASE ~c.ok ->
                   /\ Pause("proj_menu", s, <<"Invalid choice.">>, <<>>, <<>>)
                   /\ UNCHANGED cfgVars
              [] c.ok /\ c.val \in 1..Len(projects) /\ Lower(confirm) = <<"y">> ->
                   /\ PauseOrExit(r.raised, "proj_menu", s, r.msgs, <<>>, <<>>)
                   /\ cfgMem' = r.config
                   /\ cfgFile' = IF r.save THEN SaveConfig(r.config) ELSE cfgFile
              \* not confirmed, 0, or a number that selects nothing: no word, no change
              [] OTHER ->
                   /\ Pause("proj_menu", s, <<>>, <<>>, <<>>)
                   /\ UNCHANGED cfgVars
        /\ answers' = IF c.ok /\ c.val \in 1..Len(projects) THEN <<confirm>> ELSE <<>>
        /\ codes' = <<>>
        /\ debugLine' = <<>>
        /\ UNCHANGED <<selVars, nonMenuVars>>

\* Ctrl-C while a prompt waits: input() raises KeyboardInterrupt
PromptInterrupt ==
    /\ pc \notin {"none", "exited"}
    /\ Exit("KeyboardInterrupt", CtrlC, <<>>, <<>>, <<>>)
    /\ answers' = <<>>
    /\ codes' = <<>>
    /\ debugLine' = <<>>
    /\ UNCHANGED <<cfgVars, selVars, nonMenuVars>>

Next ==
    \/ \E s \in ChoiceInputs : MainMenuChoice(s)
    \/ \E s \in ChoiceInputs, o \in VmListOutcomes : SelectVmProject(s, o)
    \/ \E s \in ChoiceInputs, o \in StatusOutcomes : SelectVm(s, o)
    \/ \E s \in ChoiceInputs : \E e \in VmActionEnvs(s) : VmActionChoice(s, e)
    \/ \E s \in ChoiceInputs, o \in ServiceListOutcomes : SelectCrProject(s, o)
    \/ \E s \in ChoiceInputs : SelectService(s)
    \/ \E s \in ChoiceInputs : \E e \in CrActionEnvs(s) : CrActionChoice(s, e)
    \/ \E s \in ChoiceInputs : \E e \in CrConnectEnvs(s) : CrConnectChoice(s, e)
    \/ \E s \in ChoiceInputs : \E e \in CrDebugEnvs(s) : CrDebugChoice(s, e)
    \/ \E text \in InteractiveInputs, o \in RunOutcomes : CrInteractive(text, o)
    \/ \E s \in ChoiceInputs, name \in ProjectNameInputs : ProjectMenuChoice(s, name)
    \/ \E s \in ChoiceInputs, confirm \in ConfirmInputs : ProjectRemoveChoice(s, confirm)
    \/ PressEnter
    \/ PromptInterrupt

(***************************************************************************)
(* The numbered choices.                                                   *)
(***************************************************************************)
\* the prompts that ask for a numbered choice
ChoicePoints ==
    {"main_menu", "vm_projects", "cr_projects", "vm_select", "cr_select", "vm_action",
     "cr_action", "proj_menu", "proj_remove", "cr_connect", "cr_debug"}

\* the numbers the prompt p offers, as its text "(a-b)" says
ChoiceRange(p) ==
    CASE p \in {"main_menu", "cr_action", "proj_menu"} -> 0..3
      [] p \in {"vm_projects", "cr_projects", "proj_remove"} ->
           0..Len(GetProjectList(cfgFile).list)
      [] p = "vm_select" -> 0..Len(vmList)
      [] p = "cr_select" -> 0..Len(svcList)
      [] p = "vm_action" -> 0..8
      [] p = "cr_connect" -> 1..3
      [] p = "cr_debug" -> 0..9

\* s is no integer, or an integer the prompt p does not offer
InvalidChoice(p, s) == ~ParseInt(s).ok \/ ParseInt(s).val \notin ChoiceRange(p)

\* the messages that reject an input
RejectTexts ==
    {"Please enter a number.", "Invalid choice. Please try again.", "Invalid choice.",
     "Error in debug container method: "}

\* this step read an invalid input at a numbered choice
InvalidChoiceRead ==
    /\ pc \in ChoicePoints
    /\ lastInput' # CtrlC
    /\ InvalidChoice(pc, lastInput')

\* this step called no function of a menu, ran no command and left the
\* configuration and the selections alone
NothingDispatched ==
    /\ dispatched' = <<>>
    /\ procCalls' = <<>>
    /\ UNCHANGED <<cfgVars, curProject, vmVars, svcList, curService>>

\* the choice this step read at is the one asked next: at once, or after the
\* "Press Enter" that follows the message
AskedAgain == pc' = pc \/ (pc' = "press_enter" /\ resume' = pc)

\* C10: at every numbered choice (main menu, project selection, VM and service
\* selection, VM and Cloud Run action menus, project menu, project removal, Cloud
\* Run connection method and debug option) an input that is no integer or is out
\* of range is rejected with an error, the same choice is asked again, and the
\* input dispatches nothing.
C10_InvalidChoiceAskedAgain ==
    [][InvalidChoiceRead =>
         /\ \E i \in 1..Len(msgs') : msgs'[i] \in RejectTexts
         /\ AskedAgain
         /\ NothingDispatched]_vars

\* this step read "0" at a numbered choice
ZeroRead == pc \in ChoicePoints /\ lastInput' = <<"0">>

\* the menu that called the menu p
ParentMenu(p) ==
    CASE p \in {"vm_projects", "cr_projects", "proj_menu"} -> "main_menu"
      [] p = "vm_select" -> "vm_projects"
      [] p = "cr_select" -> "cr_projects"
      [] p = "vm_action" -> "vm_select"
      [] p = "cr_action" -> "cr_select"
      [] p = "proj_remove" -> "proj_menu"
      [] p \in {"cr_connect", "cr_debug"} -> "cr_action"
      [] OTHER -> "none"

\* the menu q is the one asked next: at once, or after a "Press Enter"
BackAt(q) == pc' = q \/ (pc' = "press_enter" /\ resume' = q)

\* control is back in the caller of the menu: its menu is asked next; the caller
\* of an action menu lists again first, and where the listing fails it goes one
\* menu further back, or its exception ends the program
BackInCaller ==
    \/ pc = "main_menu" /\ pc' = "exited" /\ exitCode' = 0
    \/ pc # "main_menu" /\ BackAt(ParentMenu(pc))
    \/ /\ pc \in {"vm_action", "cr_action"}
       /\ procCalls' # <<>>
       /\ BackAt(ParentMenu(ParentMenu(pc))) \/ pc' = "exited"

\* the commands of this step are listings only
OnlyListings ==
    \A i \in 1..Len(procCalls') :
        procCalls'[i].argv \in {ListVmsCmd(curProject), ListServicesCmd(curProject)}

\* C11: in every menu the choice 0 goes back: control returns to the caller of
\* the menu (at the main menu the program ends with exit code 0), no function of
\* a menu is called, no command but the listing of the menu gone back to is run,
\* and the configuration is not changed.
C11_ZeroGoesBack ==
    [][ZeroRead =>
         /\ BackInCaller
         /\ dispatched' = <<>>
         /\ OnlyListings
         /\ UNCHANGED cfgVars]_vars

\* 0 was read at the menu of a VM, and the VMs of the project are listed again
C11_Witness ==
    /\ pc = "vm_select"
    /\ lastInput = <<"0">>
    /\ procCalls = <<Call(ListVmsCmd(curProject), TRUE)>>

(***************************************************************************)
(* The remembered VM descriptors.                                          *)
(***************************************************************************)
\* the "vms" of project in the configuration config
VmsOf(config, project) == Elements(ConfiguredVms(ProjectConfigOf(config, project)))

\* the descriptors config.json holds for project
RememberedVms(project) == VmsOf(cfgFile.val, project)

\* vms holds a descriptor with the name and zone of row
HasDescriptor(vms, row) ==
    \E i \in 1..Len(vms) :
        /\ vms[i].k = "obj"
        /\ DictGet(vms[i].m, <<"name">>, JNull) = DictGet(row.m, <<"name">>, JNull)
        /\ DictGet(vms[i].m, <<"zone">>, JNull) = DictGet(row.m, <<"zone">>, JNull)

\* C12: after display_vms listed a project, every VM listed (its name and zone)
\* has a descriptor in the configuration file, also in a project that was added
\* with "vms": [].
C12_ListedVmsPersisted ==
    pc = "vm_select" =>
        \A i \in 1..Len(vmList) : HasDescriptor(RememberedVms(curProject), vmList[i])

\* the projects of the configuration config
ProjectNamesIn(config) ==
    IF ProjectsOf(config).k = "obj"
    THEN {ProjectsOf(config).m[i].key : i \in 1..Len(ProjectsOf(config).m)}
    ELSE {}

\* this step is a removal of project that the user confirmed
RemovalConfirmed(project) ==
    /\ pc = "proj_remove"
    /\ \E i \in 1..Len(msgs') : msgs'[i] = "Project removed successfully."
    /\ ParseInt(lastInput').ok
    /\ ParseInt(lastInput').val \in 1..Len(GetProjectList(cfgFile).list)
    /\ project = GetProjectList(cfgFile).list[ParseInt(lastInput').val]

\* project and its descriptors are in config.json after the step as before
ProjectKept(project) ==
    /\ project \in ProjectNamesIn(cfgFile'.val)
    /\ \A i \in 1..Len(VmsOf(cfgFile.val, project)) :
           \E j \in 1..Len(VmsOf(cfgFile'.val, project)) :
               VmsOf(cfgFile'.val, project)[j] = VmsOf(cfgFile.val, project)[i]

\* C13: entries of the configuration file are deleted by a confirmed removal of
\* their project only: every other step keeps every project of the file and every
\* VM descriptor of it.
C13_DeletedOnlyByRemoval ==
    [][\A project \in ProjectNamesIn(cfgFile.val) :
          ~RemovalConfirmed(project) => ProjectKept(project)]_vars

\* two descriptors with one name and one zone
SameKey(a, b) ==
    /\ a.k = "obj"
    /\ b.k = "obj"
    /\ DictGet(a.m, <<"name">>, JNull) = DictGet(b.m, <<"name">>, JNull)
    /\ DictGet(a.m, <<"zone">>, JNull) = DictGet(b.m, <<"zone">>, JNull)

\* C14: no project of the configuration file holds two VM descriptors with the
\* same name and zone, whatever the listings of display_vms returned (also one
\* that repeats an instance).
C14_NoDuplicateDescriptors ==
    \A project \in ProjectNamesIn(cfgFile.val) :
        \A i, j \in 1..Len(RememberedVms(project)) :
            i # j => ~SameKey(RememberedVms(project)[i], RememberedVms(project)[j])

\* a listing that repeated an instance was stored: one descriptor of it in the file
C14_Witness ==
    /\ pc = "vm_select"
    /\ Len(vmList) = 2
    /\ SameKey(vmList[1], vmList[2])
    /\ Len(RememberedVms(curProject)) = 1
    /\ SameKey(RememberedVms(curProject)[1], vmList[1])

\* the step ran the listing of display_vms
ListingRan ==
    \E i \in 1..Len(procCalls') :
        /\ Len(procCalls'[i].argv) >= 4
        /\ SubSeq(procCalls'[i].argv, 1, 4) =
               << <<"gcloud">>, <<"compute">>, <<"instances">>, <<"list">> >>

\* C15: a listing of display_vms leaves every remembered descriptor where it is
\* and as it is (name, zone, region, description), also the descriptor of a VM
\* that the listing does not return.
C15_ListingKeepsRemembered ==
    [][ListingRan =>
         \A project \in ProjectNamesIn(cfgFile.val) :
             /\ Len(VmsOf(cfgFile'.val, project)) >= Len(VmsOf(cfgFile.val, project))
             /\ \A i \in 1..Len(VmsOf(cfgFile.val, project)) :
                    VmsOf(cfgFile'.val, project)[i] = VmsOf(cfgFile.val, project)[i]]_vars

\* a listing without the remembered db-1 of europe-west1-b was shown, and the
\* descriptor is in the file
C15_Witness ==
    /\ pc = "vm_select"
    /\ vmList # <<>>
    /\ \A j \in 1..Len(vmList) : ~SameKey(vmList[j], RememberedDb)
    /\ \E i \in 1..Len(RememberedVms(curProject)) : RememberedVms(curProject)[i] = RememberedDb

(***************************************************************************)
(* start_vm, stop_vm, reset_vm.                                            *)
(***************************************************************************)
PowerVerbs == {"start", "stop", "reset"}

\* the step called <verb>_vm on the VM selected
PowerCalled(verb) == pc = "vm_action" /\ dispatched' = << verb \o "_vm" >>

\* what <verb>_vm reports
PowerReports(verb) ==
    CASE verb = "start" -> {<<"VM started successfully.">>, <<"Failed to start VM: ">>}
      [] verb = "stop" -> {<<"VM stopped successfully.">>, <<"Failed to stop VM: ">>}
      [] verb = "reset" -> {<<"VM reset successfully.">>, <<"Failed to reset VM: ">>}

\* C19: start_vm, stop_vm and reset_vm run one command, gcloud compute instances
\* <verb> <vm> --project <project> --zone <zone>, once and with the output
\* captured; whether it succeeded or failed they report it, wait at one "Press
\* Enter" and return to vm_action_menu. (Ctrl-C during the command ends main().)
C19_PowerCommandOnce ==
    [][\A verb \in PowerVerbs :
          PowerCalled(verb) =>
            /\ procCalls' =
                  <<Call(<< <<"gcloud">>, <<"compute">>, <<"instances">>, <<verb>>,
                            NameText(curVm), <<"--project">>, curProject,
                            <<"--zone">>, ZoneText(curVm) >>, TRUE)>>
            /\ \/ /\ pc' = "press_enter"
                  /\ resume' = "vm_action"
                  /\ msgs' \in PowerReports(verb)
               \/ pc' = "exited" /\ exitCode' = 0]_vars

\* start_vm failed, reported it and waits at its "Press Enter"
C19_Witness ==
    /\ pc = "press_enter"
    /\ resume = "vm_action"
    /\ dispatched = <<"start_vm">>
    /\ msgs = <<"Failed to start VM: ">>
    /\ procCalls =
          <<Call(<< <<"gcloud">>, <<"compute">>, <<"instances">>, <<"start">>,
                    NameText(curVm), <<"--project">>, curProject,
                    <<"--zone">>, ZoneText(curVm) >>, TRUE)>>

(***************************************************************************)
(* Ctrl-C and launch failures of the commands.                             *)
(***************************************************************************)
\* the call is one that blocks until the user ends it: an SSH session on a VM, a
\* file transfer, an SSH session on a Cloud Run service, the proxy
BlockingCall(call) ==
    /\ Len(call.argv) >= 5
    /\ \/ /\ call.argv[2] = <<"compute">>
          /\ call.argv[3] \in {<<"ssh">>, <<"scp">>}
          /\ ~call.capture
       \/ SubSeq(call.argv, 2, 4) = << <<"run">>, <<"services">>, <<"ssh">> >>
       \/ SubSeq(call.argv, 2, 5) = << <<"beta">>, <<"run">>, <<"services">>, <<"proxy">> >>

\* the last command the step ran is a blocking one: the commands after it were
\* not reached, or there are none
EndedInBlockingCall ==
    /\ procCalls' # <<>>
    /\ BlockingCall(procCalls'[Len(procCalls')])
    /\ lastInput' # CtrlC

\* C17: Ctrl-C during a blocking command does not end the program: no step that
\* read a choice (not Ctrl-C) and ended in a blocking command leaves through
\* main()'s KeyboardInterrupt handler, which exits with code 0.
C17_InterruptOfCommandCaught ==
    [][EndedInBlockingCall => ~(pc' = "exited" /\ exitCode' = 0)]_vars

\* the last command the step ran is a blocking one or a curl call of the debug
\* container
EndedInSessionOrCurl ==
    /\ procCalls' # <<>>
    /\ \/ BlockingCall(procCalls'[Len(procCalls')])
       \/ procCalls'[Len(procCalls')].argv[1] = <<"curl">>

\* C18: an exception raised by the launch of a command does not end the program:
\* no step that ended in an interactive session, a file transfer, the proxy or a
\* curl call leaves through main()'s handler of Exception, which exits with code 1.
C18_LaunchExceptionCaught ==
    [][EndedInSessionOrCurl => ~(pc' = "exited" /\ exitCode' = 1)]_vars

(***************************************************************************)
(* The status that vm_action_menu showed gates stop, start and reset.      *)
(***************************************************************************)
\* the step ran gcloud compute instances <verb>
PowerIssued(verb) ==
    \E i \in 1..Len(procCalls') :
        /\ Len(procCalls'[i].argv) >= 4
        /\ SubSeq(procCalls'[i].argv, 2, 4) = << <<"compute">>, <<"instances">>, <<verb>> >>

\* the step read the choice n
ChoiceRead(n) == ParseInt(lastInput').ok /\ ParseInt(lastInput').val = n

\* C23: in vm_action_menu the stop command is issued only under the status
\* RUNNING that the menu showed, the start command only under TERMINATED or
\* STOPPED, the reset command only under RUNNING; under any other status the
\* choices 2 and 3 run no command.
C23_PowerGatedByStatus ==
    [][pc = "vm_action" =>
         /\ PowerIssued("stop") => vmStatus = JStr(<<"RUNNING">>)
         /\ PowerIssued("start") => vmStatus \in {JStr(<<"TERMINATED">>), JStr(<<"STOPPED">>)}
         /\ PowerIssued("reset") => vmStatus = JStr(<<"RUNNING">>)
         /\ ChoiceRead(2) /\ vmStatus \notin {JStr(<<"RUNNING">>), JStr(<<"TERMINATED">>),
                                              JStr(<<"STOPPED">>)} => procCalls' = <<>>
         /\ ChoiceRead(3) /\ vmStatus # JStr(<<"RUNNING">>) => procCalls' = <<>>]_vars

\* choice 2 under the status UNKNOWN was refused
C23_Witness ==
    /\ pc = "press_enter"
    /\ resume = "vm_action"
    /\ lastInput = <<"2">>
    /\ vmStatus = JStr(<<"UNKNOWN">>)
    /\ msgs = <<"Cannot perform this action while VM is in ">>
    /\ procCalls = <<>>

(***************************************************************************)
(* The navigation of manage_vms and manage_cloud_run.                      *)
(***************************************************************************)
\* the menu the program is in: at a "Press Enter" the menu shown after it; the
\* connection methods of ssh_to_cloud_run run inside cloud_run_action_menu
MenuAt(p, r) ==
    LET q == IF p = "press_enter" THEN r ELSE p
    IN  IF q \in {"cr_connect", "cr_debug", "cr_interactive"} THEN "cr_action" ELSE q

\* the step read 0 at the numbered choice of menu p
ZeroAt(p) == pc = p /\ ChoiceRead(0)

\* the step listed the VMs or the services of the project selected
ListedAgain ==
    \E i \in 1..Len(procCalls') :
        procCalls'[i].argv \in {ListVmsCmd(curProject), ListServicesCmd(curProject)}

\* the menus a step may lead to from the menu p of manage_vms or manage_cloud_run:
\* the same, the one above, the one below
Neighbours(p) ==
    CASE p = "vm_projects" -> {"vm_projects", "main_menu", "vm_select"}
      [] p = "vm_select" -> {"vm_select", "vm_projects", "vm_action"}
      [] p = "vm_action" -> {"vm_action", "vm_select"}
      [] p = "cr_projects" -> {"cr_projects", "main_menu", "cr_select"}
      [] p = "cr_select" -> {"cr_select", "cr_projects", "cr_action"}
      [] p = "cr_action" -> {"cr_action", "cr_select"}

\* the selection below project selection, and project selection above an action menu
SelectionOf(p) == IF p \in {"vm_projects", "vm_action"} THEN "vm_select" ELSE "cr_select"

ProjectsOver(p) == IF p = "vm_action" THEN "vm_projects" ELSE "cr_projects"

\* C24: manage_vms and manage_cloud_run move one level at a time. 0 at an action
\* menu lists the project again and leads to its selection (to project selection
\* when the listing fails or is empty); 0 at a selection leads to project
\* selection; 0 at project selection leads to the main menu; the main menu is
\* reached from project selection by 0 only; an action menu is entered from the
\* selection with the row chosen there. (An exception or Ctrl-C ends main().)
C24_Hierarchical ==
    [][LET p == MenuAt(pc, resume)
           q == MenuAt(pc', resume')
       IN  p \in {"vm_projects", "vm_select", "vm_action",
                  "cr_projects", "cr_select", "cr_action"} /\ q # "exited" =>
             /\ \/ q \in Neighbours(p)
                \/ /\ p \in {"vm_action", "cr_action"}
                   /\ q = ProjectsOver(p)
                   /\ ListedAgain
             /\ q = "main_menu" => ChoiceRead(0)
             /\ ZeroAt("vm_action") \/ ZeroAt("cr_action") =>
                   /\ ListedAgain
                   /\ \/ q = SelectionOf(p) /\ curProject' = curProject
                      \/ q = ProjectsOver(p)
             /\ ZeroAt("vm_select") => q = "vm_projects"
             /\ ZeroAt("cr_select") => q = "cr_projects"
             /\ ZeroAt("vm_projects") \/ ZeroAt("cr_projects") => q = "main_menu"
             /\ q = "vm_action" =>
                   \/ p = "vm_action" /\ curVm' = curVm
                   \/ /\ pc = "vm_select"
                      /\ \E n \in 1..Len(vmList) : ChoiceRead(n) /\ curVm' = vmList[n]
             /\ q = "cr_action" =>
                   \/ p = "cr_action" /\ curService' = curService
                   \/ /\ pc = "cr_select"
                      /\ \E n \in 1..Len(svcList) :
                            ChoiceRead(n) /\ curService' = svcList[n]]_vars

\* 0 at the action menu of a service listed the project again and the service
\* selection of the same project is asked
C24_Witness ==
    /\ pc = "cr_select"
    /\ lastInput = <<"0">>
    /\ curProject # <<>>
    /\ svcList # <<>>
    /\ \E i \in 1..Len(procCalls) : procCalls[i].argv = ListServicesCmd(curProject)

(***************************************************************************)
(* manage_projects: adding and removing a project.                         *)
(***************************************************************************)
\* the entry of project in config, null when there is none
EntryOf(config, project) ==
    IF project \in ProjectNamesIn(config) THEN DictGet(ProjectsOf(config).m, project, JNull)
    ELSE JNull

\* from config to config2 the entry {"vms": []} of name was added and nothing else
\* changed
OnlyAdded(config, config2, name) ==
    /\ name \notin ProjectNamesIn(config)
    /\ ProjectNamesIn(config2) = ProjectNamesIn(config) \cup {name}
    /\ EntryOf(config2, name) = NewProject
    /\ \A p \in ProjectNamesIn(config) : EntryOf(config2, p) = EntryOf(config, p)

\* the step is choice 2 of manage_projects with a configuration that has projects
AddRead ==
    /\ pc = "proj_menu"
    /\ ChoiceRead(2)
    /\ ProjectsOf(cfgMem).k = "obj"
    /\ HasKey(cfgMem.m, <<"projects">>)

\* C25: "Add new project" with an empty name or a name that is a project already
\* changes neither main()'s configuration nor the file; with a new name it adds
\* the one entry {"vms": []}, in main()'s configuration and in the file, leaves
\* the entry of every other project as it was, and saves.
C25_AddProject ==
    [][AddRead =>
         \/ /\ msgs' \in {<<>>, <<"Project already exists.">>}
            /\ UNCHANGED cfgVars
         \/ /\ msgs' = <<"Project added successfully.">>
            /\ cfgFile' = SaveConfig(cfgMem')
            /\ \E name \in Projects :
                  /\ OnlyAdded(cfgMem, cfgMem', name)
                  /\ OnlyAdded(cfgFile.val, cfgFile'.val, name)]_vars

\* the step reads n at "Select project to remove" and confirm at "Are you sure":
\* n is one of the numbers shown and confirm is y or Y
RemovalAsked(n, confirm) ==
    /\ pc = "proj_remove"
    /\ ChoiceRead(n)
    /\ n \in 1..Len(GetProjectList(cfgFile).list)
    /\ answers' = <<confirm>>
    /\ confirm \in {<<"y">>, <<"Y">>}

\* from config to config2 the project name was deleted and no other
OnlyRemoved(config, config2, name) ==
    /\ name \in ProjectNamesIn(config)
    /\ ProjectNamesIn(config2) = ProjectNamesIn(config) \ {name}

\* C26: at "Select project to remove" a project is removed only when a number of
\* 1..N was read and the answer to "Are you sure" was y or Y: then the project
\* shown at that number, and no other, leaves main()'s configuration and the
\* file, which is saved; 0, a number out of range, a text that is no integer and
\* every other answer change neither and save nothing.
C26_RemoveProject ==
    [][pc = "proj_remove" =>
         IF \E n \in 1..Cardinality(Projects), confirm \in ConfirmInputs :
               RemovalAsked(n, confirm)
         THEN \E n \in 1..Cardinality(Projects) :
                 /\ ChoiceRead(n)
                 /\ msgs' = <<"Project removed successfully.">>
                 /\ OnlyRemoved(cfgMem, cfgMem', GetProjectList(cfgFile).list[n])
                 /\ OnlyRemoved(cfgFile.val, cfgFile'.val, GetProjectList(cfgFile).list[n])
                 /\ cfgFile' = SaveConfig(cfgMem')
         ELSE UNCHANGED cfgVars]_vars

\* the second of two projects was removed after a y
C26_Witness ==
    /\ pc = "press_enter"
    /\ resume = "proj_menu"
    /\ lastInput = <<"2">>
    /\ answers \in {<< <<"y">> >>, << <<"Y">> >>}
    /\ msgs = <<"Project removed successfully.">>
    /\ Cardinality(ProjectNamesIn(cfgMem)) = 1
    /\ ProjectNamesIn(cfgFile.val) = ProjectNamesIn(cfgMem)

\* the projects get_project_list reads from config.json
FileProjects == ProjectNamesIn(LoadConfig(cfgFile).config)

\* main()'s configuration and config.json have the same projects
SameProjects == ProjectNamesIn(cfgMem) = FileProjects

\* C27: main()'s configuration and config.json name the same projects before and
\* after every step of the menus; so a removal that was confirmed finds the
\* project it read from the file's list in main()'s configuration and does not
\* end main(), and the number display_projects returned selects, in the list
\* manage_vms reads again, the project whose VMs are listed.
C27_SameProjects ==
    [][/\ SameProjects
       /\ SameProjects'
       /\ (\E n \in 1..Cardinality(Projects), confirm \in ConfirmInputs :
              RemovalAsked(n, confirm))
          => /\ pc' = "press_enter"
             /\ \E n \in 1..Cardinality(Projects) :
                   /\ ChoiceRead(n)
                   /\ GetProjectList(cfgFile).list[n] \in ProjectNamesIn(cfgMem)
       /\ \A n \in 1..Cardinality(Projects) :
             pc = "vm_projects" /\ ChoiceRead(n) /\ n <= Cardinality(FileProjects)
             => /\ n <= Len(GetProjectList(cfgFile).list)
                /\ procCalls' # <<>>
                /\ procCalls'[1].argv = ListVmsCmd(GetProjectList(cfgFile).list[n])]_vars

\* "Select project to remove" is shown after display_vms has written to the
\* file: main()'s configuration and the file differ and name the same two
\* projects
C27_Witness ==
    /\ pc = "proj_remove"
    /\ lastInput = <<"3">>
    /\ cfgFile.val # cfgMem
    /\ ProjectNamesIn(cfgMem) = Projects
    /\ FileProjects = Projects
    /\ Len(RememberedVms(<<"production-1">>)) > 0
    /\ EntryOf(cfgMem, <<"test-project">>) = NewProject
    /\ EntryOf(cfgMem, <<"production-1">>) = JObj(<<>>)

(***************************************************************************)
(* ssh_to_cloud_run: the three checks before the connection methods.       *)
(***************************************************************************)
\* the checks of the service selected, in the order of ssh_to_cloud_run
PreChecks ==
    << Call(VersionCmd, TRUE),
       Call(<< <<"gcloud">>, <<"run">>, <<"services">>, <<"describe">>, SvcName,
               <<"--project">>, curProject, <<"--region">>, SvcRegion,
               <<"--format">>, <<"json">> >>, TRUE),
       Call(<< <<"gcloud">>, <<"run">>, <<"revisions">>, <<"list">>, <<"--service">>, SvcName,
               <<"--project">>, curProject, <<"--region">>, SvcRegion,
               <<"--format">>, <<"json">> >>, TRUE) >>

\* what ssh_to_cloud_run prints when the k-th check fails
CheckFailures ==
    << "Failed to get gcloud version: ", "Failed to get Cloud Run service details: ",
       "Failed to get Cloud Run revisions: " >>

ConnectionMethods == {"try_direct_ssh", "use_exec_method", "use_debug_container"}

\* C28: ssh_to_cloud_run runs gcloud --version, the describe of the service and
\* the list of its revisions in this order and stops at the first that does not
\* exit with 0: the commands of the step are the first k of the three, the
\* first k-1 exited with 0, and either the k-th did not (its message, "Press
\* Enter", back to the action menu; Ctrl-C ends main()), or k = 3, all three
\* exited with 0 and the connection methods are asked. The connection methods
\* are asked after three checks that exited with 0 only, and a connection
\* method runs only from that prompt.
C28_PreChecksInOrder ==
    [][/\ pc = "cr_action" /\ dispatched' = <<"ssh_to_cloud_run">>
          => \E k \in 1..3 :
                /\ procCalls' = SubSeq(PreChecks, 1, k)
                /\ Len(codes') = k
                /\ \A i \in 1..(k - 1) : codes'[i] = 0
                /\ CASE codes'[k] = 0 ->
                          /\ k = 3
                          /\ pc' = "cr_connect"
                          /\ msgs' = <<"Select a connection method:">>
                     [] codes'[k] = -1 ->
                          /\ pc' = "exited"
                          /\ exitCode' = 0
                     [] OTHER ->
                          /\ pc' = "press_enter"
                          /\ resume' = "cr_action"
                          /\ msgs' = <<CheckFailures[k]>>
       /\ pc' = "cr_connect"
          => /\ pc = "cr_action"
             /\ dispatched' = <<"ssh_to_cloud_run">>
             /\ procCalls' = PreChecks
             /\ codes' = <<0, 0, 0>>
       /\ (\E i \in 1..Len(dispatched') : dispatched'[i] \in ConnectionMethods)
          => pc = "cr_connect"]_vars

\* the version was printed and the describe of the service failed: two commands,
\* no list of revisions, no connection methods
C28_Witness ==
    /\ pc = "press_enter"
    /\ resume = "cr_action"
    /\ dispatched = <<"ssh_to_cloud_run">>
    /\ msgs = <<"Failed to get Cloud Run service details: ">>
    /\ Len(procCalls) = 2
    /\ procCalls[1].argv = VersionCmd
    /\ procCalls[2].argv[4] = <<"describe">>
    /\ codes = <<0, 1>>

(***************************************************************************)
(* use_debug_container: the URL of the service, the token, curl.           *)
(***************************************************************************)
\* the query for the URL of the service selected
UrlQuery ==
    Call(<< <<"gcloud">>, <<"run">>, <<"services">>, <<"describe">>, SvcName,
            <<"--project">>, curProject, <<"--region">>, SvcRegion,
            <<"--format">>, <<"json(status.url)">> >>, TRUE)

\* call asks for an identity token for a URL that is not empty
TokenRequest(call) ==
    /\ Len(call.argv) = 5
    /\ SubSeq(call.argv, 1, 4) =
           << <<"gcloud">>, <<"auth">>, <<"print-identity-token">>, <<"--audiences">> >>
    /\ call.argv[5] # <<>>
    /\ call.capture

\* a call of curl is among the commands of the step
CurlRan == \E i \in 1..Len(procCalls') : procCalls'[i].argv[1] = <<"curl">>

\* C29: use_debug_container asks for the URL of the service first; it asks for
\* the token only when that command exited with 0 and gave a URL that is not
\* empty; its options are shown only when the token command exited with 0 too;
\* curl runs only in a later step, from the options with a choice of 1..8 or
\* from the interactive mode entered there, one call a step. Whatever fails
\* first ends use_debug_container.
C29_UrlTokenCurl ==
    [][/\ pc = "cr_connect" /\ dispatched' = <<"use_debug_container">>
          => /\ Len(procCalls') \in 1..2
             /\ Len(codes') = Len(procCalls')
             /\ procCalls'[1] = UrlQuery
             /\ Len(procCalls') = 2 => codes'[1] = 0 /\ TokenRequest(procCalls'[2])
             /\ pc' = "cr_debug" <=> codes' = <<0, 0>>
             /\ pc' = "cr_debug" => /\ serviceUrl'.s = procCalls'[2].argv[5]
                                    /\ msgs' = <<"Debug container options:">>
             /\ pc' \notin {"cr_debug", "exited"} => pc' = "press_enter" /\ resume' = "cr_action"
       /\ pc' = "cr_debug" => pc = "cr_connect" /\ dispatched' = <<"use_debug_container">>
       /\ pc' = "cr_interactive" => pc \in {"cr_debug", "cr_interactive"}
       /\ CurlRan
          => /\ Len(procCalls') = 1
             /\ \/ pc = "cr_debug" /\ \E n \in 1..8 : ChoiceRead(n)
                \/ pc = "cr_interactive" /\ Lower(lastInput') # <<"exit">>
             /\ procCalls'[1].argv[4] = <<"Authorization: Bearer ">> \o authToken]_vars

\* option 2 of the debug container ran its curl after the URL and the token were
\* given
C29_Witness ==
    /\ pc = "press_enter"
    /\ resume = "cr_action"
    /\ lastInput = <<"2">>
    /\ msgs = <<"Executing command: ">>
    /\ Len(procCalls) = 1
    /\ procCalls[1].argv[1] = <<"curl">>
    /\ procCalls[1].argv[8] = <<"{\"command\": \"", "ls -la", "\"}">>

(***************************************************************************)
(* use_debug_container in debug mode: the command line it prints.          *)
(***************************************************************************)
\* token in text: text has the characters of token somewhere
Contains(text, token) ==
    \E i \in 1..(Len(text) - Len(token) + 1) : SubSeq(text, i, i + Len(token) - 1) = token

\* the vector that ran, with its Authorization header replaced
TokenReplaced(argv) == [argv EXCEPT ![4] = <<"Authorization: Bearer [TOKEN]">>]

\* C30: the "[DEBUG] Running" line that use_debug_container prints in debug mode
\* before a curl command, for an option 1..8 and in the interactive mode, is
\* the vector that runs, joined with blanks, with the element of its
\* Authorization header replaced by "Authorization: Bearer [TOKEN]": the token
\* is not in the line, and it is in the vector that runs. Without debug mode no
\* such line is printed.
C30_TokenMasked ==
    [][/\ debugLine' # <<>>
          => /\ debugMode
             /\ CurlRan
             /\ authToken # <<>>
             /\ ~Contains(debugLine', authToken)
             /\ procCalls'[1].argv[4] = <<"Authorization: Bearer ">> \o authToken
             /\ debugLine' =
                  <<IF pc = "cr_debug" THEN "[DEBUG] Running command: "
                    ELSE "[DEBUG] Running: ">>
                    \o Join(TokenReplaced(procCalls'[1].argv))
       /\ debugMode /\ CurlRan => debugLine' # <<>>]_vars

\* option 2 ran in debug mode: the line printed has [TOKEN], the vector the token
C30_Witness ==
    /\ pc = "press_enter"
    /\ lastInput = <<"2">>
    /\ Len(procCalls) = 1
    /\ procCalls[1].argv[1] = <<"curl">>
    /\ Len(procCalls[1].argv[4]) = 2
    /\ procCalls[1].argv[4][2] # "[TOKEN]"
    /\ debugLine = <<"[DEBUG] Running command: ">> \o Join(TokenReplaced(procCalls[1].argv))
    /\ Contains(debugLine, <<"Authorization: Bearer [TOKEN]">>)

(***************************************************************************)
(* run_command_on_vm.                                                      *)
(***************************************************************************)
\* the call run_command_on_vm makes for the command c on the VM selected
RemoteCommandCall(c) ==
    Call(<< <<"gcloud">>, <<"compute">>, <<"ssh">>, NameText(curVm),
            <<"--project">>, curProject, <<"--zone">>, ZoneText(curVm),
            <<"--tunnel-through-iap">>, <<"--command">>, c >>, TRUE)

\* C22: run_command_on_vm with an empty command runs nothing, says so, waits at
\* one "Press Enter" and returns; with a command c it runs gcloud compute ssh
\* <vm> --project <project> --zone <zone> --tunnel-through-iap --command c once
\* through run_command and, whatever the exit code, reports and returns the same
\* way. (Ctrl-C during the command ends main().)
C22_RemoteCommandOnce ==
    [][pc = "vm_action" /\ dispatched' = <<"run_command_on_vm">> =>
         \/ /\ procCalls' = <<>>
            /\ msgs' = <<"No command entered.">>
            /\ pc' = "press_enter"
            /\ resume' = "vm_action"
         \/ /\ \E c \in CommandInputs : c # <<>> /\ procCalls' = <<RemoteCommandCall(c)>>
            /\ \/ /\ pc' = "press_enter"
                  /\ resume' = "vm_action"
                  /\ msgs' \in {<<"Command executed successfully.">>,
                                <<"Failed to execute command: ">>}
               \/ pc' = "exited" /\ exitCode' = 0]_vars

\* the command failed on the VM, and run_command_on_vm waits at its "Press Enter"
C22_Witness ==
    /\ pc = "press_enter"
    /\ resume = "vm_action"
    /\ dispatched = <<"run_command_on_vm">>
    /\ msgs = <<"Failed to execute command: ">>
    /\ procCalls = <<RemoteCommandCall(<<"ls -la">>)>>

(***************************************************************************)
(* The interactive sessions.                                               *)
(***************************************************************************)
\* the call starts an interactive session: gcloud compute ssh without --command,
\* gcloud run services ssh, gcloud beta run services proxy
SessionCall(call) ==
    /\ Len(call.argv) >= 5
    /\ \/ /\ call.argv[2] = <<"compute">>
          /\ call.argv[3] = <<"ssh">>
          /\ \A i \in 1..Len(call.argv) : call.argv[i] # <<"--command">>
       \/ SubSeq(call.argv, 2, 4) = << <<"run">>, <<"services">>, <<"ssh">> >>
       \/ SubSeq(call.argv, 2, 5) = << <<"beta">>, <<"run">>, <<"services">>, <<"proxy">> >>

\* C21: every command that starts an interactive session (SSH into a VM, direct
\* SSH into a Cloud Run service, the Cloud Run proxy) runs with output capture
\* off, in debug mode too.
C21_SessionsNotCaptured ==
    \A i \in 1..Len(procCalls) : SessionCall(procCalls[i]) => ~procCalls[i].capture

(***************************************************************************)
(* The exit code.                                                          *)
(***************************************************************************)
\* how often the step reported an exception that reached main()
ErrorsReported ==
    Cardinality({i \in 1..Len(msgs') : msgs'[i] = "An unexpected error occurred: "})

\* C20: choice 0 of the main menu ends the process with exit code 0; an exception
\* that reaches main() is reported once and ends the process with exit code 1,
\* and nothing else gives exit code 1; after the end no step is taken.
C20_ExitCodes ==
    [][/\ pc # "exited"
       /\ pc = "main_menu" /\ lastInput' = <<"0">> => pc' = "exited" /\ exitCode' = 0
       /\ ErrorsReported <= 1
       /\ ErrorsReported = 1 <=> pc' = "exited" /\ exitCode' = 1
       /\ pc' = "exited" <=> exitCode' \in {0, 1}
       /\ pc' # "exited" <=> exitCode' = -1]_vars

\* an exception ended the process
C20_Witness ==
    /\ pc = "exited"
    /\ exitCode = 1
    /\ msgs # <<>>
    /\ msgs[Len(msgs)] = "An unexpected error occurred: "

(***************************************************************************)
(* load_config and save_config, called in any order by a caller that is    *)
(* not main(), as the tests of src/tests/test_config.py call them; between *)
(* the calls the file is whatever the user made of it.                     *)
(***************************************************************************)
\* the files the calls meet: those main() may start with, and one with two projects
CfgFiles ==
    InitialFiles \cup {File(TRUE, TRUE, ConfigOf(<< <<"test-project">>, <<"production-1">> >>))}

\* the dicts handed to save_config
SavedConfigs == {f.val : f \in {g \in CfgFiles : g.ok}}

cfgOther ==
    <<procCalls, pfVars, cmdVars, pc, resume, lastInput, exitCode, answers, codes, debugLine,
      selVars>>

CfgInit ==
    /\ procCalls = <<>>
    /\ CmdIdle
    /\ PFIdle
    /\ pc = "none"
    /\ resume = "none"
    /\ lastInput = <<>>
    /\ msgs = <<>>
    /\ dispatched = <<>>
    /\ exitCode = -1
    /\ cfgFile \in CfgFiles
    /\ cfgMem = JNull
    /\ answers = <<>>
    /\ codes = <<>>
    /\ debugLine = <<>>
    /\ curProject = <<>>
    /\ vmList = <<>>
    /\ curVm = JNull
    /\ vmStatus = JNull
    /\ svcList = <<>>
    /\ curService = JNull
    /\ debugMode = FALSE
    /\ serviceUrl = JNull
    /\ authToken = <<>>

\* config = load_config(path)
CfgLoad ==
    /\ dispatched' = <<"load_config">>
    /\ cfgFile' = LoadConfig(cfgFile).file
    /\ cfgMem' = LoadConfig(cfgFile).config
    /\ msgs' = LoadConfig(cfgFile).msgs
    /\ UNCHANGED cfgOther

\* save_config(config, path)
CfgSave(config) ==
    /\ dispatched' = <<"save_config">>
    /\ cfgFile' = SaveConfig(config)
    /\ msgs' = <<>>
    /\ UNCHANGED <<cfgMem, cfgOther>>

\* the user replaces or deletes the file
CfgFileChanged(f) ==
    /\ f # cfgFile
    /\ dispatched' = <<>>
    /\ cfgFile' = f
    /\ msgs' = <<>>
    /\ UNCHANGED <<cfgMem, cfgOther>>

CfgNext ==
    \/ CfgLoad
    \/ \E config \in SavedConfigs : CfgSave(config)
    \/ \E f \in CfgFiles : CfgFileChanged(f)

\* C16: load_config on a path without a file creates the file with the default
\* {"projects": {}} and returns the default; on an existing file it writes nothing
\* and, the file being JSON, returns the parsed content.
C16_LoadConfig ==
    [][dispatched' = <<"load_config">> =>
         /\ ~cfgFile.exists =>
               cfgFile' = File(TRUE, TRUE, DefaultConfig) /\ cfgMem' = DefaultConfig
         /\ cfgFile.exists => cfgFile' = cfgFile
         /\ cfgFile.exists /\ cfgFile.ok => cfgMem' = cfgFile.val]_vars

\* load_config returned what an existing file remembers
C16_Witness ==
    /\ dispatched = <<"load_config">>
    /\ cfgFile.exists
    /\ cfgMem = cfgFile.val
    /\ \E i \in 1..Len(VmsOf(cfgMem, <<"test-project">>)) :
          VmsOf(cfgMem, <<"test-project">>)[i] = RememberedDb

(***************************************************************************)
(* Specifications.                                                         *)
(***************************************************************************)
\* the port-forward configurator, run once from its entry
SpecPF == PFInit /\ [][PFNext]_vars

\* main(), from the first main menu on
Spec == Init /\ [][Next]_vars

\* nothing of the command layer has been called
CmdInit == procCalls = <<>> /\ CmdIdle /\ PFIdle /\ MenuIdle

\* the command layer, called once
SpecCmd == CmdInit /\ [][CmdNext]_vars

\* the configuration functions
SpecCfg == CfgInit /\ [][CfgNext]_vars

====
